---- MODULE Spec2Model ----
(***************************************************************************)
(* bp-tracker: the record store (lib/db.ts over the bp_records table), the *)
(* shorthand parser (lib/parser.ts) and the /api/records route handlers,   *)
(* as a state machine; ui is the state of the client-side components.      *)
(*                                                                         *)
(* Texts are sequences of one-character strings.  The only whitespace      *)
(* character drawn is the space.  JavaScript values are records            *)
(* [t, i, f, s]: t the type tag, i the integer part of a number, f whether *)
(* the number is i + 1/2, s the characters of a string.                    *)
(***************************************************************************)
EXTENDS Integers, Sequences, FiniteSets, TLC

VARIABLES rows, seq, now, resp, returned, deleted, ui, calls

vars == <<rows, seq, now, resp, returned, deleted, ui, calls>>

(* ------------------------------ bounds -------------------------------- *)

\* ids handed out in one run
MaxId == 3
\* the clock stops here
MaxNow == 2

(* ------------------------- JavaScript values -------------------------- *)

Undefined == [t |-> "undefined", i |-> 0, f |-> FALSE, s |-> <<>>]

Null == [t |-> "null", i |-> 0, f |-> FALSE, s |-> <<>>]

Num(n) == [t |-> "number", i |-> n, f |-> FALSE, s |-> <<>>]

\* the number n + 0.5
NumHalf(n) == [t |-> "number", i |-> n, f |-> TRUE, s |-> <<>>]

Str(cs) == [t |-> "string", i |-> 0, f |-> FALSE, s |-> cs]

\* a plain object literal such as {}
Obj == [t |-> "object", i |-> 0, f |-> FALSE, s |-> <<>>]

NaN == [nan |-> TRUE, i |-> 0, f |-> FALSE]

Digits == <<"0", "1", "2", "3", "4", "5", "6", "7", "8", "9">>

IsDigit(c) == \E k \in 1..10 : Digits[k] = c

DigitVal(c) == (CHOOSE k \in 1..10 : Digits[k] = c) - 1

RECURSIVE TrimLeft(_)
TrimLeft(s) ==
  IF s # <<>> /\ Head(s) = " " THEN TrimLeft(Tail(s)) ELSE s

RECURSIVE TrimRight(_)
TrimRight(s) ==
  IF s # <<>> /\ s[Len(s)] = " " THEN TrimRight(SubSeq(s, 1, Len(s) - 1)) ELSE s

\* String.prototype.trim
Trim(s) == TrimRight(TrimLeft(s))

\* the digits at the front of s, read in base 10 onto acc
RECURSIVE DigitRun(_, _, _)
DigitRun(s, acc, any) ==
  IF s # <<>> /\ IsDigit(Head(s))
    THEN DigitRun(Tail(s), 10 * acc + DigitVal(Head(s)), TRUE)
    ELSE IF any THEN [nan |-> FALSE, i |-> acc, f |-> FALSE] ELSE NaN

\* parseInt(s, 10): leading whitespace, an optional sign, then the longest
\* run of digits; NaN when there is no digit; what follows is ignored
ParseInt(s) ==
  LET t == TrimLeft(s)
      neg == t # <<>> /\ Head(t) = "-"
      signed == t # <<>> /\ Head(t) \in {"-", "+"}
      r == DigitRun(IF signed THEN Tail(t) ELSE t, 0, FALSE)
  IN IF r.nan THEN NaN
     ELSE [nan |-> FALSE, i |-> IF neg THEN 0 - r.i ELSE r.i, f |-> FALSE]

IsDigits(s) == s # <<>> /\ \A k \in 1..Len(s) : IsDigit(s[k])

\* ToNumber on a string, for texts of letters, digits and spaces: the empty
\* or blank text is 0, a run of digits is its value, anything else is NaN
StringToNumber(s) ==
  LET t == Trim(s)
  IN IF t = <<>> THEN [nan |-> FALSE, i |-> 0, f |-> FALSE]
     ELSE IF IsDigits(t) THEN DigitRun(t, 0, FALSE)
     ELSE NaN

\* ToNumber, as the relational operators apply it to their operands
ToNumber(v) ==
  CASE v.t = "number" -> [nan |-> FALSE, i |-> v.i, f |-> v.f]
    [] v.t = "null" -> [nan |-> FALSE, i |-> 0, f |-> FALSE]
    [] v.t = "string" -> StringToNumber(v.s)
    [] OTHER -> NaN

\* v < k and v > k for an integer k: false whenever v converts to NaN
JsLt(v, k) == LET n == ToNumber(v) IN ~n.nan /\ n.i < k

JsGt(v, k) == LET n == ToNumber(v) IN ~n.nan /\ (IF n.f THEN n.i >= k ELSE n.i > k)

(* ------------------------------ parser -------------------------------- *)

\* String.prototype.split('/')
RECURSIVE Split(_, _)
Split(s, cur) ==
  IF s = <<>> THEN <<cur>>
  ELSE IF Head(s) = "/" THEN <<cur>> \o Split(Tail(s), <<>>)
  ELSE Split(Tail(s), Append(cur, Head(s)))

\* the systolic checks with the two ends of the range left out
SystolicErrors_Exclusive(n) ==
  IF n.nan THEN <<"Systolic must be a valid number">>
  ELSE IF n.i <= 60 \/ n.i >= 250 THEN <<"Systolic must be between 60 and 250">>
  ELSE <<>>

SystolicErrors(n) ==
  IF n.nan THEN <<"Systolic must be a valid number">>
  ELSE IF n.i < 60 \/ n.i > 250 THEN <<"Systolic must be between 60 and 250">>
  ELSE <<>>

DiastolicErrors(n) ==
  IF n.nan THEN <<"Diastolic must be a valid number">>
  ELSE IF n.i < 40 \/ n.i > 150 THEN <<"Diastolic must be between 40 and 150">>
  ELSE <<>>

\* hrStr is the trimmed third segment; the empty text leaves heartRate null,
\* and isNaN(null) is false while null < 40 is true
HeartRateErrors(hrStr) ==
  IF hrStr = <<>> THEN <<"Heart rate must be between 40 and 200">>
  ELSE LET n == ParseInt(hrStr)
       IN IF n.nan THEN <<"Heart rate must be a valid number">>
          ELSE IF n.i < 40 \/ n.i > 200 THEN <<"Heart rate must be between 40 and 200">>
          ELSE <<>>

NoData == [systolic |-> 0, diastolic |-> 0, heartRate |-> Null]

parseBPInput(input) ==
  LET trimmedInput == Trim(input)
      parts == Split(trimmedInput, <<>>)
  IN IF trimmedInput = <<>>
       THEN [success |-> FALSE, errors |-> <<"Input is empty">>, data |-> NoData]
     ELSE IF Len(parts) < 2 \/ Len(parts) > 3
       THEN [success |-> FALSE,
             errors |-> <<"Invalid format. Expected: systolic/diastolic or systolic/diastolic/heartRate">>,
             data |-> NoData]
     ELSE
       LET systolic == ParseInt(Trim(parts[1]))
           diastolic == ParseInt(Trim(parts[2]))
           errors == SystolicErrors(systolic) \o DiastolicErrors(diastolic)
                       \o (IF Len(parts) = 3 THEN HeartRateErrors(Trim(parts[3])) ELSE <<>>)
       IN IF errors # <<>>
            THEN [success |-> FALSE, errors |-> errors, data |-> NoData]
            ELSE [success |-> TRUE, errors |-> <<>>,
                  data |-> [systolic |-> systolic.i, diastolic |-> diastolic.i,
                            heartRate |-> IF Len(parts) = 3
                                            THEN Num(ParseInt(Trim(parts[3])).i)
                                            ELSE Null]]

(* ---------------------------- record store ---------------------------- *)

\* getRecordById's null
NoRecord ==
  [id |-> 0, systolic |-> Null, diastolic |-> Null, heart_rate |-> Null,
   recorded_at |-> 0, notes |-> Null]

\* what better-sqlite3 binds: numbers, strings and null; anything else throws
Bindable(v) == v.t \in {"number", "string", "null"}

\* a value written to an INTEGER column and read back: a text that is a run
\* of digits becomes that integer, a number with a fraction stays a REAL, any
\* other text stays TEXT
IntegerAffinity(v) ==
  IF v.t = "string" /\ IsDigits(v.s) THEN Num(DigitRun(v.s, 0, FALSE).i) ELSE v

\* a rowid table without AUTOINCREMENT: one more than the largest rowid held now
NextRowid_NoAutoincrement(rws, sq) ==
  IF rws = {} THEN 1
  ELSE (CHOOSE m \in {r.id : r \in rws} : \A r \in rws : r.id <= m) + 1

\* AUTOINCREMENT: one more than the largest rowid the table has ever held,
\* which sqlite_sequence (sq) remembers across deletes
NextRowid(rws, sq) == sq + 1

getRecordById(rws, id) ==
  IF \E r \in rws : r.id = id THEN CHOOSE r \in rws : r.id = id ELSE NoRecord

\* input: [systolic, diastolic, heartRate, notes]; t: CURRENT_TIMESTAMP
createRecord(rws, sq, t, input) ==
  LET cols == <<input.systolic, input.diastolic, input.heartRate>>
      notes == IF input.notes.t \in {"undefined", "null"} THEN Null ELSE input.notes
      inserted == /\ \A k \in 1..3 : Bindable(cols[k]) /\ cols[k].t # "null"
                  /\ Bindable(notes)
      id == NextRowid(rws, sq)
      row == [id |-> id,
              systolic |-> IntegerAffinity(input.systolic),
              diastolic |-> IntegerAffinity(input.diastolic),
              heart_rate |-> IntegerAffinity(input.heartRate),
              recorded_at |-> t,
              notes |-> notes]
      after == IF inserted THEN rws \cup {row} ELSE rws
      record == getRecordById(after, id)
  IN [ok |-> inserted /\ record # NoRecord,
      rows |-> after,
      seq |-> IF inserted THEN id ELSE sq,
      record |-> record]

\* DELETE ... WHERE id <= ?
RowsAfterDelete_UpTo(rws, id) == {r \in rws : r.id > id}

\* DELETE FROM bp_records WHERE id = ?
RowsAfterDelete(rws, id) == {r \in rws : r.id # id}

\* result.changes >= 0
DeleteChanged_Always(rws, id) == Cardinality(rws \ RowsAfterDelete(rws, id)) >= 0

\* result.changes > 0
DeleteChanged(rws, id) == Cardinality(rws \ RowsAfterDelete(rws, id)) > 0

deleteRecord(rws, id) ==
  [rows |-> RowsAfterDelete(rws, id), changed |-> DeleteChanged(rws, id)]

\* whether ORDER BY recorded_at DESC puts row a before row b.  SQL leaves the
\* order of rows with equal recorded_at to the query plan: a backward scan of
\* the recorded_at index yields them by rowid descending, a sort of the table
\* scan yields them by rowid ascending.
SortsBefore(a, b, plan) ==
  \/ a.recorded_at > b.recorded_at
  \/ /\ a.recorded_at = b.recorded_at
     /\ IF plan = "index" THEN a.id > b.id ELSE a.id < b.id

\* ORDER BY recorded_at DESC: a row's position is one more than the number
\* of rows that sort before it
OrderByRecordedAtDesc(rws, plan) ==
  LET ranked == {<<Cardinality({x \in rws : SortsBefore(x, r, plan)}), r>> : r \in rws}
  IN [k \in 1..Cardinality(rws) |-> (CHOOSE p \in ranked : p[1] = k - 1)[2]]

\* LIMIT ? OFFSET ?: a negative LIMIT is no limit, a negative OFFSET is 0
\* the same with the offset taken as the position of the last row skipped
\* plus one
SqlLimitOffset_SkipsOneMore(ord, limit, offset) ==
  LET off == (IF offset < 0 THEN 0 ELSE offset) + 1
      last == IF limit < 0 \/ off + limit > Len(ord) THEN Len(ord) ELSE off + limit
  IN SubSeq(ord, off + 1, last)

SqlLimitOffset(ord, limit, offset) ==
  LET off == IF offset < 0 THEN 0 ELSE offset
      last == IF limit < 0 \/ off + limit > Len(ord) THEN Len(ord) ELSE off + limit
  IN SubSeq(ord, off + 1, last)

\* days !== undefined && days > 0, without the test on the sign
HasDaysFilter_AnyDays(options) == options.days.t # "undefined"

\* days !== undefined && days > 0
HasDaysFilter(options) == options.days.t # "undefined" /\ JsGt(options.days, 0)

\* WHERE recorded_at >= datetime('now', '-' || ? || ' days'), the clock at t
\* and counted in days
Matching(rws, t, options) ==
  IF HasDaysFilter(options)
    THEN {r \in rws : r.recorded_at >= t - options.days.i}
    ELSE rws

\* SELECT COUNT(*) without the WHERE clause
Total_NoWhere(rws, t, options) == Cardinality(rws)

\* SELECT COUNT(*) as count FROM bp_records ${whereClause}
Total(rws, t, options) == Cardinality(Matching(rws, t, options))

OldDefaultLimit == 100

\* options.limit ?? 50
DefaultLimit == 50

\* options.offset ?? 0
DefaultOffset == 0

\* options: [limit, offset, days], each a number or undefined.  The count
\* and the select are two statements, each reading the clock: tCount, tSelect.
getRecords(rws, tCount, tSelect, options, plan) ==
  LET limit == IF options.limit.t \in {"undefined", "null"}
                 THEN DefaultLimit ELSE options.limit.i
      offset == IF options.offset.t \in {"undefined", "null"}
                  THEN DefaultOffset ELSE options.offset.i
      total == Total(rws, tCount, options)
      ord == OrderByRecordedAtDesc(Matching(rws, tSelect, options), plan)
  IN [records |-> SqlLimitOffset(ord, limit, offset), total |-> total]

(* --------------------------- POST /api/records ------------------------- *)

\* the object form's checks without the one on the heart rate
ObjectFormErrors_NoHeartRate(body) ==
  (IF JsLt(body.systolic, 60) \/ JsGt(body.systolic, 250)
     THEN <<"Systolic must be between 60 and 250">> ELSE <<>>)
  \o (IF JsLt(body.diastolic, 40) \/ JsGt(body.diastolic, 150)
        THEN <<"Diastolic must be between 40 and 150">> ELSE <<>>)

\* the range checks of the object form
ObjectFormErrors(body) ==
  (IF JsLt(body.systolic, 60) \/ JsGt(body.systolic, 250)
     THEN <<"Systolic must be between 60 and 250">> ELSE <<>>)
  \o (IF JsLt(body.diastolic, 40) \/ JsGt(body.diastolic, 150)
        THEN <<"Diastolic must be between 40 and 150">> ELSE <<>>)
  \o (IF JsLt(body.heartRate, 40) \/ JsGt(body.heartRate, 200)
        THEN <<"Heart rate must be between 40 and 200">> ELSE <<>>)

InvalidBodyDetails ==
  <<"Expected either \"input\" field (string format: \"120/80/72\")",
    "or \"systolic\", \"diastolic\", and \"heartRate\" fields">>

PostReply(status, error, details, record, rws, sq) ==
  [status |-> status, error |-> error, details |-> details, record |-> record,
   rows |-> rws, seq |-> sq]

\* the insert and the 201, or the catch block's 500 when createRecord throws
PostCreate(rws, sq, t, createInput) ==
  LET c == createRecord(rws, sq, t, createInput)
  IN IF c.ok THEN PostReply(201, "", <<>>, c.record, c.rows, c.seq)
     ELSE PostReply(500, "Internal server error", <<>>, NoRecord, c.rows, c.seq)

\* body.kind: "malformed" (request.json() throws), "null", "scalar" (a JSON
\* number, string or boolean) or "object" with the fields input, systolic,
\* diastolic, heartRate, notes
POST(rws, sq, t, body) ==
  IF body.kind = "malformed"
    THEN PostReply(500, "Internal server error", <<>>, NoRecord, rws, sq)
  ELSE IF body.kind # "object"
    THEN PostReply(400, "Invalid request body", InvalidBodyDetails, NoRecord, rws, sq)
  ELSE IF body.input.t # "undefined"
    THEN IF body.input.t # "string"
           \* input.trim is not a function: caught by the handler's catch
           THEN PostReply(500, "Internal server error", <<>>, NoRecord, rws, sq)
           ELSE LET parseResult == parseBPInput(body.input.s)
                IN IF ~parseResult.success
                     THEN PostReply(400, "Invalid input format", parseResult.errors,
                                    NoRecord, rws, sq)
                     ELSE PostCreate(rws, sq, t,
                            [systolic |-> Num(parseResult.data.systolic),
                             diastolic |-> Num(parseResult.data.diastolic),
                             heartRate |-> IF parseResult.data.heartRate.t = "null"
                                             THEN Num(0)
                                             ELSE parseResult.data.heartRate,
                             notes |-> body.notes])
  ELSE IF /\ body.systolic.t # "undefined"
          /\ body.diastolic.t # "undefined"
          /\ body.heartRate.t # "undefined"
    THEN LET errors == ObjectFormErrors(body)
         IN IF errors # <<>>
              THEN PostReply(400, "Invalid data", errors, NoRecord, rws, sq)
              ELSE PostCreate(rws, sq, t,
                     [systolic |-> body.systolic, diastolic |-> body.diastolic,
                      heartRate |-> body.heartRate, notes |-> body.notes])
  ELSE PostReply(400, "Invalid request body", InvalidBodyDetails, NoRecord, rws, sq)

(* ---------------------------- GET /api/records ------------------------- *)

GetReply(status, error, result, limit, offset, queried) ==
  [status |-> status, error |-> error, records |-> result.records,
   total |-> result.total, limit |-> limit, offset |-> offset, queried |-> queried]

NoResult == [records |-> <<>>, total |-> 0]

\* params: [limit, offset, days], each the text of the query parameter or
\* null when the parameter is absent
GET(rws, tCount, tSelect, params, plan) ==
  LET parsedLimit == ParseInt(params.limit.s)
      parsedOffset == ParseInt(params.offset.s)
      parsedDays == ParseInt(params.days.s)
      limit == IF params.limit.t = "null" THEN 50 ELSE parsedLimit.i
      offset == IF params.offset.t = "null" THEN 0 ELSE parsedOffset.i
      days == IF params.days.t = "null" THEN Undefined ELSE Num(parsedDays.i)
  IN IF params.limit.t # "null"
        /\ (parsedLimit.nan \/ parsedLimit.i < 1 \/ parsedLimit.i > 1000)
       THEN GetReply(400, "Invalid limit parameter. Must be between 1 and 1000",
                     NoResult, 0, 0, FALSE)
     ELSE IF params.offset.t # "null" /\ (parsedOffset.nan \/ parsedOffset.i < 0)
       THEN GetReply(400, "Invalid offset parameter. Must be a non-negative integer",
                     NoResult, 0, 0, FALSE)
     ELSE IF params.days.t # "null" /\ (parsedDays.nan \/ parsedDays.i < 1)
       THEN GetReply(400, "Invalid days parameter. Must be a positive integer",
                     NoResult, 0, 0, FALSE)
     ELSE GetReply(200, "",
                   getRecords(rws, tCount, tSelect,
                              [limit |-> Num(limit), offset |-> Num(offset), days |-> days],
                              plan),
                   limit, offset, TRUE)

(* ------------------------ DELETE /api/records/{id} --------------------- *)

\* id.includes('.')
IncludesPoint(id) == \E k \in 1..Len(id) : id[k] = "."

\* isNaN(recordId) || recordId < 1 || id.includes('.')
InvalidRecordId(id) ==
  LET recordId == ParseInt(id)
  IN recordId.nan \/ recordId.i < 1 \/ IncludesPoint(id)

\* id: the text of the path segment.  called: whether deleteRecord ran.
DELETE(rws, id) ==
  IF InvalidRecordId(id)
    THEN [status |-> 400, error |-> "Invalid record ID", rows |-> rws, called |-> FALSE]
  ELSE LET d == deleteRecord(rws, ParseInt(id).i)
       IN IF ~d.changed
            THEN [status |-> 404, error |-> "Record not found", rows |-> d.rows,
                  called |-> TRUE]
            ELSE [status |-> 200, error |-> "", rows |-> d.rows, called |-> TRUE]

(* ------------------------------ statistics ----------------------------- *)

\* the same tests with the elevated one moved to the front
classifyBP_ElevatedFirst(systolic, diastolic) ==
  IF systolic >= 120 /\ diastolic < 80 THEN "elevated"
  ELSE IF systolic >= 180 \/ diastolic >= 120 THEN "crisis"
  ELSE IF systolic >= 140 \/ diastolic >= 90 THEN "high2"
  ELSE IF systolic >= 130 \/ diastolic >= 80 THEN "high1"
  ELSE "normal"

classifyBP(systolic, diastolic) ==
  IF systolic >= 180 \/ diastolic >= 120 THEN "crisis"
  ELSE IF systolic >= 140 \/ diastolic >= 90 THEN "high2"
  ELSE IF systolic >= 130 \/ diastolic >= 80 THEN "high1"
  ELSE IF systolic >= 120 /\ diastolic < 80 THEN "elevated"
  ELSE "normal"

\* records.slice(from, to): the elements at the 0-based positions from up
\* to, not including, to
Slice(records, from, to) ==
  SubSeq(records, from + 1, IF to > Len(records) THEN Len(records) ELSE to)

\* records.reduce((sum, r) => sum + r.systolic, 0)
RECURSIVE SumSystolic(_)
SumSystolic(records) ==
  IF records = <<>> THEN 0
  ELSE SumSystolic(SubSeq(records, 1, Len(records) - 1)) + records[Len(records)].systolic

\* the binary exponent of the double sum / 3, for a sum of three readings
Exponent(sum) == CHOOSE k \in 0..20 : 3 * 2^k <= sum /\ sum < 3 * 2^(k + 1)

\* three times the rounding error of the double sum / 3, in units of 2^-52.
\* A third is 0.0101.. in binary and two thirds 0.1010..: cut after the
\* 52 - k fraction bits the exponent k leaves, the quotient is rounded to
\* the nearer neighbour, down or up by a third of the last bit kept.
RoundingError(sum) ==
  LET k == Exponent(sum)
      r == sum % 3
  IN IF r = 0 THEN 0
     ELSE IF (r = 1) = (k % 2 = 0) THEN 0 - 2^k ELSE 2^k

\* sum / recent.length as a double, for a slice of three records: the
\* exact quotient sum / 3 and the rounding error of the division
Mean3(sum) == [sum |-> sum, error |-> RoundingError(sum)]

\* diff < bound and diff > bound for diff = recent - older, two doubles
\* that are sums divided by 3, and an integer bound.  The subtraction is
\* exact next to an integer bound, so the rounding errors decide only when
\* the exact quotients differ by the bound.
DiffBelow(recent, older, bound) ==
  \/ recent.sum - older.sum < 3 * bound
  \/ recent.sum - older.sum = 3 * bound /\ recent.error < older.error

DiffAbove(recent, older, bound) ==
  \/ recent.sum - older.sum > 3 * bound
  \/ recent.sum - older.sum = 3 * bound /\ recent.error > older.error

\* the trend with the two ends of the stable band counted as a change
trend_FiveCounts(records) ==
  IF Len(records) >= 6
    THEN LET half == Len(records) \div 2
             recent == Slice(records, 0, IF 3 < half THEN 3 ELSE half)
             older == Slice(records, half, half + 3)
             diff == SumSystolic(recent) - SumSystolic(older)
         IN IF diff <= 0 - 15 THEN "improving"
            ELSE IF diff >= 15 THEN "worsening"
            ELSE "stable"
    ELSE "stable"

\* with 6 records or more both slices hold three records
trend(records) ==
  IF Len(records) >= 6
    THEN LET half == Len(records) \div 2
             recent == Slice(records, 0, IF 3 < half THEN 3 ELSE half)
             older == Slice(records, half, half + 3)
             recentSystolic == Mean3(SumSystolic(recent))
             olderSystolic == Mean3(SumSystolic(older))
         IN IF DiffBelow(recentSystolic, olderSystolic, 0 - 5) THEN "improving"
            ELSE IF DiffAbove(recentSystolic, olderSystolic, 5) THEN "worsening"
            ELSE "stable"
    ELSE "stable"

\* [...records].sort((a, b) => time(a) - time(b)): ascending and stable
RECURSIVE sortedByDate(_)
sortedByDate(records) ==
  IF records = <<>> THEN <<>>
  ELSE LET n == Len(records)
           last == records[n]
           front == sortedByDate(SubSeq(records, 1, n - 1))
           k == Cardinality({j \in 1..(n - 1) : front[j].recorded_at <= last.recorded_at})
       IN SubSeq(front, 1, k) \o <<last>> \o SubSeq(front, k + 1, n - 1)

\* the empty text of a date range without records
NoDate == 0

dateRange(records) ==
  LET sorted == sortedByDate(records)
  IN IF records = <<>> THEN [start |-> NoDate, end |-> NoDate]
     ELSE [start |-> sorted[1].recorded_at, end |-> sorted[Len(sorted)].recorded_at]

\* the stats of the BPStats component
stats(records) ==
  [count |-> Len(records), dateRange |-> dateRange(records), trend |-> trend(records)]

(* ----------------------------- the inputs ------------------------------ *)

T_120_80_72 == <<"1", "2", "0", "/", "8", "0", "/", "7", "2">>

T_120_80 == <<"1", "2", "0", "/", "8", "0">>

T_120p7_80 == <<"1", "2", "0", ".", "7", "/", "8", "0">>

T_spaced == <<" ", "1", "2", "0", " ", "/", " ", "8", "0", " ">>

T_300_80_72 == <<"3", "0", "0", "/", "8", "0", "/", "7", "2">>

T_10_20_30 == <<"1", "0", "/", "2", "0", "/", "3", "0">>

T_120_80_slash == <<"1", "2", "0", "/", "8", "0", "/">>

T_abc == <<"a", "b", "c">>

T_abc_80 == <<"a", "b", "c", "/", "8", "0">>

T_blank == <<" ">>

T_four == <<"1", "/", "2", "/", "3", "/", "4">>

T_note == <<"n">>

ObjectBody(input, systolic, diastolic, heartRate, notes) ==
  [kind |-> "object", input |-> input, systolic |-> systolic,
   diastolic |-> diastolic, heartRate |-> heartRate, notes |-> notes]

StringBodies ==
  {ObjectBody(Str(t), Undefined, Undefined, Undefined, Undefined) :
     t \in {T_120_80_72, T_120_80, T_120p7_80, T_spaced, T_300_80_72, T_10_20_30,
            T_120_80_slash, T_abc, T_abc_80, T_blank, <<>>, T_four}}
  \cup {ObjectBody(Str(T_120_80_72), Undefined, Undefined, Undefined, Str(T_note)),
        ObjectBody(Str(T_300_80_72), Num(120), Num(80), Num(72), Undefined),
        ObjectBody(Num(123), Undefined, Undefined, Undefined, Undefined)}

\* <<systolic, diastolic, heartRate>> of the object-form bodies drawn
ObjectFields ==
  {<<Num(120), Num(80), Num(72)>>, <<NumHalf(120), Num(80), Num(72)>>,
   <<Str(T_abc), Num(80), Num(72)>>, <<Obj, Num(80), Num(72)>>,
   <<Num(59), Num(80), Num(72)>>, <<Num(251), Num(80), Num(72)>>,
   <<Num(120), Num(39), Num(72)>>, <<Num(120), Num(151), Num(72)>>,
   <<Num(120), Num(80), Num(39)>>, <<Num(120), Num(80), Num(201)>>,
   <<Num(120), Num(80), Num(0)>>, <<Num(120), Num(80), Null>>,
   <<Num(59), Num(39), Num(201)>>, <<Undefined, Num(80), Num(72)>>,
   <<Num(120), Undefined, Num(72)>>, <<Num(120), Num(80), Undefined>>,
   <<Undefined, Undefined, Undefined>>}

ObjectBodies ==
  {ObjectBody(Undefined, o[1], o[2], o[3], Undefined) : o \in ObjectFields}

OtherBodies ==
  {[kind |-> k, input |-> Undefined, systolic |-> Undefined, diastolic |-> Undefined,
    heartRate |-> Undefined, notes |-> Undefined] : k \in {"malformed", "null", "scalar"}}

PostBodies == StringBodies \cup ObjectBodies \cup OtherBodies

Options(limit, offset, days) == [limit |-> limit, offset |-> offset, days |-> days]

\* getRecords options inside the documented ranges
ValidOptions ==
  {Options(l, o, d) : l \in {Undefined, Num(1), Num(2)},
                      o \in {Undefined, Num(1), Num(2)},
                      d \in {Undefined, Num(1)}}

\* getRecords options with one value outside them
InvalidOptions ==
  {Options(l, o, Undefined) : l \in {Num(0), Num(-1), Num(1001)}, o \in {Undefined, Num(1)}}
  \cup {Options(l, Num(-1), Undefined) : l \in {Undefined, Num(1)}}
  \cup {Options(l, o, d) : l \in {Undefined, Num(2)}, o \in {Undefined, Num(1)},
                           d \in {Num(0), Num(-1)}}

StoreOptions == ValidOptions \cup InvalidOptions

P_1 == <<"1">>

P_2 == <<"2">>

P_0 == <<"0">>

P_neg1 == <<"-", "1">>

P_1000 == <<"1", "0", "0", "0">>

P_1001 == <<"1", "0", "0", "1">>

P_2x == <<"2", "x">>

P_1p5 == <<"1", ".", "5">>

P_9 == <<"9">>

P_1x == <<"1", "x">>

\* the id texts put to DELETE
IdTexts == {T_abc, P_0, P_neg1, P_1p5, P_1x, P_1, P_2, P_9}

\* the decimal numeral of a natural number
RECURSIVE ToText(_)
ToText(n) ==
  IF n < 10 THEN <<Digits[n + 1]>>
  ELSE Append(ToText(n \div 10), Digits[(n % 10) + 1])

\* the text 's/d'
RangeText(s, d) == ToText(s) \o <<"/">> \o ToText(d)

\* the segments the other inputs are put together from: in range, above
\* and below every range, negative, decimal, blank, without a digit, and
\* digits followed by a letter
Segments ==
  {<<"1", "2", "0">>, <<"8", "0">>, <<" ", "8", "0", " ">>, <<"3", "0", "0">>,
   <<"1", "0">>, <<"-", "5">>, <<"1", "2", "0", ".", "7">>, <<>>, <<" ">>,
   <<"a", "b", "c">>, <<"8", "0", "x">>}

SegmentInputs ==
  {a \o <<"/">> \o b : a, b \in Segments}
  \cup {a \o <<"/">> \o b \o <<"/">> \o c : a, b, c \in Segments}

\* the texts parseBPInput is applied to
ParseInputs == SegmentInputs \cup {T_blank, T_abc, T_four, <<>>}

\* query parameters the handler accepts
ValidParams ==
  {Options(l, o, d) : l \in {Null, Str(P_1), Str(P_2), Str(P_1000)},
                      o \in {Null, Str(P_0), Str(P_1)},
                      d \in {Null, Str(P_1)}}

\* query parameters with a value the handler refuses
InvalidParams ==
  {Options(l, Null, Null) : l \in {Str(P_0), Str(P_neg1), Str(P_1001), Str(T_abc), Str(<<>>)}}
  \cup {Options(Null, o, Null) : o \in {Str(P_neg1), Str(T_abc)}}
  \cup {Options(Null, Null, d) : d \in {Str(P_0), Str(P_neg1), Str(T_abc)}}
  \cup {Options(Str(P_0), Str(P_neg1), Str(P_0)), Options(Str(P_2), Str(P_neg1), Str(P_0)),
        Options(Str(P_2), Str(P_1), Str(P_0))}

\* query parameters whose text goes on after its leading digits
LenientParams ==
  {Options(Str(P_2x), Null, Null), Options(Null, Str(P_2x), Null),
   Options(Null, Null, Str(P_2x))}

GetParams == ValidParams \cup InvalidParams \cup LenientParams

\* the bodies posted while the queries are exercised
QueryBodies ==
  {ObjectBody(Str(T_120_80_72), Undefined, Undefined, Undefined, Undefined),
   ObjectBody(Str(T_300_80_72), Undefined, Undefined, Undefined, Undefined)}

(* ------------------------------ CSV export ----------------------------- *)

\* String(field), for a text or a number that is not negative
StringOf(field) ==
  IF field.t = "string" THEN field.s
  ELSE ToText(field.i) \o (IF field.f THEN <<".", "5">> ELSE <<>>)

\* str.includes(c)
Includes(str, c) == \E k \in 1..Len(str) : str[k] = c

\* str.replace(/"/g, '""')
RECURSIVE DoubleQuotes(_)
DoubleQuotes(str) ==
  IF str = <<>> THEN <<>>
  ELSE (IF Head(str) = "\"" THEN <<"\"", "\"">> ELSE <<Head(str)>>)
         \o DoubleQuotes(Tail(str))

\* the same without the test for a carriage return
escapeCSVField_NoCarriageReturn(field) ==
  IF field.t \in {"null", "undefined"} THEN <<>>
  ELSE LET str == StringOf(field)
       IN IF Includes(str, ",") \/ Includes(str, "\"") \/ Includes(str, "\n")
            THEN <<"\"">> \o DoubleQuotes(str) \o <<"\"">>
            ELSE str

escapeCSVField(field) ==
  IF field.t \in {"null", "undefined"} THEN <<>>
  ELSE LET str == StringOf(field)
       IN IF Includes(str, ",") \/ Includes(str, "\"") \/ Includes(str, "\n")
               \/ Includes(str, "\r")
            THEN <<"\"">> \o DoubleQuotes(str) \o <<"\"">>
            ELSE str

\* the longest text field put to escapeCSVField
MaxField == 3

\* the characters of the fields: a letter, and the four that call for quotes
FieldChars == {"a", ",", "\"", "\n", "\r"}

\* the fields of an exported record: a date or a note, a reading, no note
Fields ==
  {Str(s) : s \in UNION {[1..n -> FieldChars] : n \in 0..MaxField}}
  \cup {Num(0), Num(72), Num(120), Null}

\* lines.join(sep)
RECURSIVE Join(_, _)
Join(lines, sep) ==
  IF lines = <<>> THEN <<>>
  ELSE IF Len(lines) = 1 THEN lines[1]
  ELSE Join(SubSeq(lines, 1, Len(lines) - 1), sep) \o sep \o lines[Len(lines)]

\* ['Date', 'Systolic', 'Diastolic', 'Heart Rate', 'Notes']
headers ==
  <<<<"D", "a", "t", "e">>,
    <<"S", "y", "s", "t", "o", "l", "i", "c">>,
    <<"D", "i", "a", "s", "t", "o", "l", "i", "c">>,
    <<"H", "e", "a", "r", "t", " ", "R", "a", "t", "e">>,
    <<"N", "o", "t", "e", "s">>>>

\* the line of one record
CsvLine(record) ==
  Join(<<escapeCSVField(record.recorded_at), escapeCSVField(record.systolic),
         escapeCSVField(record.diastolic), escapeCSVField(record.heart_rate),
         escapeCSVField(record.notes)>>, <<",">>)

\* the same with a line feed after the last line
recordsToCSV_TrailingLineFeed(records) ==
  Join(<<Join(headers, <<",">>)>> \o [k \in 1..Len(records) |-> CsvLine(records[k])],
       <<"\n">>) \o <<"\n">>

recordsToCSV(records) ==
  Join(<<Join(headers, <<",">>)>> \o [k \in 1..Len(records) |-> CsvLine(records[k])],
       <<"\n">>)

\* the longest list of records exported
MaxExport == 3

\* a record as the export reads it, with the given date and note
ExportRecord(date, systolic, notes) ==
  [recorded_at |-> Str(date), systolic |-> Num(systolic), diastolic |-> Num(80),
   heart_rate |-> Num(72), notes |-> notes]

\* the records the exported lists are made of: without a note, and with
\* notes that need no quotes, quotes for a comma, for a line feed and for
\* a double quote
ExportRecords ==
  {ExportRecord(<<"d", "1">>, 120, Null), ExportRecord(<<"d", "2">>, 121, Str(<<"a">>)),
   ExportRecord(<<"d", "3">>, 122, Str(<<"a", ",", "b">>)),
   ExportRecord(<<"d", "4">>, 123, Str(<<"a", "\n", "b">>)),
   ExportRecord(<<"d", "5">>, 124, Str(<<"\"">>))}

(* --------------------------- the state machine ------------------------- *)

\* the client side when no component is mounted
NoView == [view |-> "none"]

\* rows: the bp_records table; seq: its sqlite_sequence entry; now: the
\* clock CURRENT_TIMESTAMP reads; resp: what the last operation returned;
\* returned: the ids createRecord has returned, in order; deleted: the ids
\* a deleteRecord has removed; ui: the components in the browser; calls: the
\* createRecord calls of other processes that have inserted and not yet
\* read their row back
Init ==
  /\ rows = {}
  /\ seq = 0
  /\ now = 0
  /\ resp = [op |-> "none"]
  /\ returned = <<>>
  /\ deleted = {}
  /\ ui = NoView
  /\ calls = {}

Post(body) ==
  /\ seq < MaxId
  /\ LET out == POST(rows, seq, now, body)
     IN /\ rows' = out.rows
        /\ seq' = out.seq
        /\ resp' = [op |-> "POST", status |-> out.status, error |-> out.error,
                    details |-> out.details, record |-> out.record]
        /\ returned' = IF out.status = 201 THEN Append(returned, out.record.id)
                       ELSE returned
  /\ UNCHANGED <<now, deleted, ui, calls>>

DeleteRecord(id) ==
  /\ LET d == deleteRecord(rows, id)
     IN /\ rows' = d.rows
        /\ resp' = [op |-> "deleteRecord", id |-> id, result |-> d.changed]
        /\ deleted' = IF d.changed THEN deleted \cup {id} ELSE deleted
  /\ UNCHANGED <<seq, now, returned, ui, calls>>

Tick ==
  /\ now < MaxNow
  /\ now' = now + 1
  /\ resp' = [op |-> "none"]
  /\ UNCHANGED <<rows, seq, returned, deleted, ui, calls>>

\* a query leaves the store as it was: a query made right after another one
\* reaches nothing the same query made before it does not, so the queries
\* are taken from the states some other operation has left
Idle == resp.op \notin {"getRecords", "GET"}

\* the clock as the select statement reads it: the same as the count
\* statement did, or one tick later
SelectTimes == {t \in {now, now + 1} : t <= MaxNow}

StoreGetRecords(options) ==
  /\ Idle
  /\ \E tSelect \in SelectTimes, plan \in {"index", "sort"} :
       LET out == getRecords(rows, now, tSelect, options, plan)
       IN /\ resp' = [op |-> "getRecords", options |-> options, tCount |-> now,
                      records |-> out.records, total |-> out.total]
          /\ now' = tSelect
  /\ UNCHANGED <<rows, seq, returned, deleted, ui, calls>>

Get(params) ==
  /\ Idle
  /\ \E tSelect \in SelectTimes, plan \in {"index", "sort"} :
       LET out == GET(rows, now, tSelect, params, plan)
       IN /\ resp' = [op |-> "GET", params |-> params, tCount |-> now,
                      status |-> out.status,
                      error |-> out.error, records |-> out.records,
                      total |-> out.total, limit |-> out.limit,
                      offset |-> out.offset, queried |-> out.queried]
          /\ now' = IF out.queried THEN tSelect ELSE now
  /\ UNCHANGED <<rows, seq, returned, deleted, ui, calls>>

Delete(id) ==
  /\ LET out == DELETE(rows, id)
     IN /\ rows' = out.rows
        /\ resp' = [op |-> "DELETE", id |-> id, status |-> out.status,
                    error |-> out.error, called |-> out.called]
        /\ deleted' = IF out.status = 200 THEN deleted \cup {ParseInt(id).i} ELSE deleted
  /\ UNCHANGED <<seq, now, returned, ui, calls>>

Next ==
  \/ \E body \in PostBodies : Post(body)
  \/ \E id \in 1..(MaxId + 1) : DeleteRecord(id)
  \/ Tick

Spec == Init /\ [][Next]_vars

QueryNext ==
  \/ \E body \in QueryBodies : Post(body)
  \/ \E id \in 1..(MaxId + 1) : DeleteRecord(id)
  \/ Tick
  \/ \E options \in StoreOptions : StoreGetRecords(options)
  \/ \E params \in GetParams : Get(params)

QuerySpec == Init /\ [][QueryNext]_vars

RouteNext ==
  \/ \E body \in QueryBodies : Post(body)
  \/ \E id \in IdTexts : Delete(id)
  \/ Tick

RouteSpec == Init /\ [][RouteNext]_vars

\* a text waiting to be parsed; values: the readings it was written from,
\* when it was written from readings
ParseInit ==
  /\ rows = {} /\ seq = 0 /\ now = 0 /\ returned = <<>> /\ deleted = {}
  /\ ui = NoView
  /\ calls = {}
  /\ \/ \E s \in 60..250, d \in 40..150 :
          resp = [op |-> "input", input |-> RangeText(s, d), values |-> <<s, d>>]
     \/ \E input \in ParseInputs :
          resp = [op |-> "input", input |-> input, values |-> <<>>]

Parse ==
  /\ resp.op = "input"
  /\ resp' = [op |-> "parseBPInput", input |-> resp.input, values |-> resp.values,
              result |-> parseBPInput(resp.input)]
  /\ UNCHANGED <<rows, seq, now, returned, deleted, ui, calls>>

ParseSpec == ParseInit /\ [][Parse]_vars

\* a pair of readings waiting to be classified
ClassifyInit ==
  /\ rows = {} /\ seq = 0 /\ now = 0 /\ returned = <<>> /\ deleted = {}
  /\ ui = NoView
  /\ calls = {}
  /\ \E systolic \in 100..200, diastolic \in 60..130 :
       resp = [op |-> "readings", systolic |-> systolic, diastolic |-> diastolic]

Classify ==
  /\ resp.op = "readings"
  /\ resp' = [op |-> "classifyBP", systolic |-> resp.systolic,
              diastolic |-> resp.diastolic,
              category |-> classifyBP(resp.systolic, resp.diastolic)]
  /\ UNCHANGED <<rows, seq, now, returned, deleted, ui, calls>>

ClassifySpec == ClassifyInit /\ [][Classify]_vars

\* the longest list of records handed to BPStats
MaxRecords == 7

\* the records the lists are made of: systolic readings whose means fall on
\* both sides of 128, recorded on three days
StatsRecords ==
  {[systolic |-> 123, recorded_at |-> 3], [systolic |-> 124, recorded_at |-> 1],
   [systolic |-> 128, recorded_at |-> 2], [systolic |-> 129, recorded_at |-> 2]}

\* a list of records waiting to be summarised
StatsInit ==
  /\ rows = {} /\ seq = 0 /\ now = 0 /\ returned = <<>> /\ deleted = {}
  /\ ui = NoView
  /\ calls = {}
  /\ \E n \in 0..MaxRecords : \E records \in [1..n -> StatsRecords] :
       resp = [op |-> "records", records |-> records]

Stats ==
  /\ resp.op = "records"
  /\ resp' = [op |-> "BPStats", records |-> resp.records, stats |-> stats(resp.records)]
  /\ UNCHANGED <<rows, seq, now, returned, deleted, ui, calls>>

StatsSpec == StatsInit /\ [][Stats]_vars

\* a field waiting to be written
CsvInit ==
  /\ rows = {} /\ seq = 0 /\ now = 0 /\ returned = <<>> /\ deleted = {}
  /\ ui = NoView
  /\ calls = {}
  /\ \E field \in Fields : resp = [op |-> "field", field |-> field]

Escape ==
  /\ resp.op = "field"
  /\ resp' = [op |-> "escapeCSVField", field |-> resp.field,
              out |-> escapeCSVField(resp.field)]
  /\ UNCHANGED <<rows, seq, now, returned, deleted, ui, calls>>

CsvSpec == CsvInit /\ [][Escape]_vars

\* a list of records waiting to be exported
ExportInit ==
  /\ rows = {} /\ seq = 0 /\ now = 0 /\ returned = <<>> /\ deleted = {}
  /\ ui = NoView
  /\ calls = {}
  /\ \E n \in 0..MaxExport : \E records \in [1..n -> ExportRecords] :
       resp = [op |-> "records", records |-> records]

Export ==
  /\ resp.op = "records"
  /\ resp' = [op |-> "recordsToCSV", records |-> resp.records,
              out |-> recordsToCSV(resp.records)]
  /\ UNCHANGED <<rows, seq, now, returned, deleted, ui, calls>>

ExportSpec == ExportInit /\ [][Export]_vars

\* a POST whose reply is kept together with the body that was sent
PostRequest(body) ==
  /\ seq < MaxId
  /\ LET out == POST(rows, seq, now, body)
     IN /\ rows' = out.rows
        /\ seq' = out.seq
        /\ resp' = [op |-> "POST", body |-> body, status |-> out.status,
                    error |-> out.error, details |-> out.details, record |-> out.record]
        /\ returned' = IF out.status = 201 THEN Append(returned, out.record.id)
                       ELSE returned
  /\ UNCHANGED <<now, deleted, ui, calls>>

\* the bodies sent while the replies' statuses are watched: not JSON, not
\* an object, each form accepted and refused, an input that is not a text,
\* and a reading that is an object
ApiBodies ==
  OtherBodies
  \cup {ObjectBody(Str(T_120_80_72), Undefined, Undefined, Undefined, Undefined),
        ObjectBody(Str(T_abc), Undefined, Undefined, Undefined, Undefined),
        ObjectBody(Num(123), Undefined, Undefined, Undefined, Undefined),
        ObjectBody(Undefined, Num(120), Num(80), Num(72), Undefined),
        ObjectBody(Undefined, Num(59), Num(80), Num(72), Undefined),
        ObjectBody(Undefined, Obj, Num(80), Num(72), Undefined)}

ApiParams ==
  {Options(Null, Null, Null), Options(Str(T_abc), Null, Null),
   Options(Null, Str(P_neg1), Null), Options(Null, Null, Str(P_0))}

ApiNext ==
  \/ \E body \in ApiBodies : PostRequest(body)
  \/ \E id \in IdTexts : Delete(id)
  \/ \E params \in ApiParams : Get(params)

ApiSpec == Init /\ [][ApiNext]_vars

\* the record the k-th of n accepted POSTs of "120/80/72" stores, the later
\* half of them posted one day after the earlier half
BulkRecord(k, n) ==
  POST({}, k - 1, IF 2 * k > n THEN 1 ELSE 0,
       ObjectBody(Str(T_120_80_72), Undefined, Undefined, Undefined, Undefined)).record

\* how far past the default limit the filled store goes
BulkExtra == 1

BulkSizes == (DefaultLimit - 1)..(DefaultLimit + BulkExtra)

\* a store filled past the default page size
BulkInit ==
  \E n \in BulkSizes :
    /\ rows = {BulkRecord(k, n) : k \in 1..n}
    /\ seq = n
    /\ now = 1
    /\ resp = [op |-> "none"]
    /\ returned = [k \in 1..n |-> k]
    /\ deleted = {}
    /\ ui = NoView
    /\ calls = {}

\* the queries put to the filled store: those that leave the limit to its
\* default or go beyond it
BulkOptions == {o \in StoreOptions : o.limit.t = "undefined" \/ o.limit.i > 2}

BulkParams == {p \in GetParams : p.limit.t = "null" \/ ParseInt(p.limit.s).i > 2}

BulkNext ==
  \/ \E options \in BulkOptions : StoreGetRecords(options)
  \/ \E params \in BulkParams : Get(params)
  \/ DeleteRecord(1)
  \/ Tick

BulkSpec == BulkInit /\ [][BulkNext]_vars

(* ----------------------------- BPInputForm ----------------------------- *)

\* validateInput: the message shown, or "" for undefined
validateInput(value) ==
  LET trimmed == Trim(value)
      parts == Split(trimmed, <<>>)
  IN IF trimmed = <<>> THEN "Blood pressure reading is required"
     ELSE IF Len(parts) < 2 \/ Len(parts) > 3
       THEN "Invalid format. Expected: systolic/diastolic or systolic/diastolic/heartRate (e.g., 120/80/72)"
     ELSE
       LET systolic == ParseInt(Trim(parts[1]))
           diastolic == ParseInt(Trim(parts[2]))
           heartRateStr == IF Len(parts) = 3 THEN Trim(parts[3]) ELSE <<>>
           heartRate == ParseInt(heartRateStr)
       IN IF systolic.nan \/ systolic.i < 60 \/ systolic.i > 250
            THEN "Systolic must be between 60 and 250"
          ELSE IF diastolic.nan \/ diastolic.i < 40 \/ diastolic.i > 150
            THEN "Diastolic must be between 40 and 150"
          ELSE IF heartRateStr # <<>>
                  /\ (heartRate.nan \/ heartRate.i < 40 \/ heartRate.i > 200)
            THEN "Heart rate must be between 40 and 200"
          ELSE ""

\* no request of the component is in flight
NoRequest == [kind |-> "none"]

\* errors: {}
NoErrors == [input |-> <<>>, general |-> <<>>]

\* the form as mounted; onSuccess counts the calls of the callback
NewForm ==
  [view |-> "form", input |-> <<>>, notes |-> <<>>, errors |-> NoErrors,
   isLoading |-> FALSE, request |-> NoRequest, onSuccess |-> 0]

\* JSON.stringify({input: input.trim(), notes: notes.trim() || undefined})
FormBody(form) ==
  ObjectBody(Str(Trim(form.input)), Undefined, Undefined, Undefined,
             IF Trim(form.notes) = <<>> THEN Undefined ELSE Str(Trim(form.notes)))

\* handleSubmit up to its await
Submitted(form) ==
  LET inputError == validateInput(form.input)
  IN IF inputError # ""
       THEN [form EXCEPT !.errors = [input |-> <<inputError>>, general |-> <<>>]]
       ELSE [form EXCEPT !.errors = NoErrors, !.isLoading = TRUE,
                         !.request = FormBody(form)]

\* what fetch gave: failed when it rejected, else the response's ok and JSON
Rejected == [failed |-> TRUE, ok |-> FALSE, details |-> <<>>, error |-> ""]

Response(status, details, error) ==
  [failed |-> FALSE, ok |-> status \in 200..299, details |-> details, error |-> error]

\* handleSubmit after its await, with the form cleared whatever the response
Settled_ClearAlways(form, r) ==
  [form EXCEPT !.input = <<>>, !.notes = <<>>, !.errors = NoErrors,
               !.onSuccess = @ + 1, !.isLoading = FALSE, !.request = NoRequest]

\* handleSubmit after its await: the try, the catch and the finally
Settled(form, r) ==
  IF r.failed
    THEN [form EXCEPT !.errors = [input |-> <<>>,
                                  general |-> <<"Network error. Please try again.">>],
                      !.isLoading = FALSE, !.request = NoRequest]
  ELSE IF ~r.ok
    THEN [form EXCEPT !.errors =
                        [input |-> IF r.details # <<>> THEN r.details
                                   ELSE IF r.error # "" THEN <<r.error>>
                                   ELSE <<"Failed to save reading">>,
                         general |-> <<>>],
                      !.isLoading = FALSE, !.request = NoRequest]
  ELSE [form EXCEPT !.input = <<>>, !.notes = <<>>, !.errors = NoErrors,
                    !.onSuccess = @ + 1, !.isLoading = FALSE, !.request = NoRequest]

\* the texts typed into the reading field
FormInputs ==
  {<<>>, T_120_80_72, T_spaced, T_120_80_slash, T_300_80_72, T_abc}

\* the texts typed into the notes field
FormNotes == {<<>>, T_note, T_blank}

FormInit ==
  /\ rows = {} /\ seq = 0 /\ now = 0 /\ returned = <<>> /\ deleted = {}
  /\ resp = [op |-> "none"]
  /\ ui = NewForm
  /\ calls = {}

\* the field is disabled while isLoading
handleInputChange(value) ==
  /\ ~ui.isLoading
  /\ ui' = [ui EXCEPT !.input = value,
                      !.errors = IF ui.errors.input # <<>>
                                   THEN [@ EXCEPT !.input = <<>>] ELSE @]
  /\ resp' = [op |-> "handleInputChange"]
  /\ UNCHANGED <<rows, seq, now, returned, deleted, calls>>

handleNotesChange(value) ==
  /\ ~ui.isLoading
  /\ ui' = [ui EXCEPT !.notes = value]
  /\ resp' = [op |-> "handleNotesChange"]
  /\ UNCHANGED <<rows, seq, now, returned, deleted, calls>>

\* the submit button is disabled while isLoading
handleSubmit ==
  /\ ~ui.isLoading
  /\ seq < MaxId
  /\ ui' = Submitted(ui)
  /\ resp' = [op |-> "handleSubmit"]
  /\ UNCHANGED <<rows, seq, now, returned, deleted, calls>>

\* the server answers the request in flight and handleSubmit resumes
SubmitResponds ==
  /\ ui.request # NoRequest
  /\ LET out == POST(rows, seq, now, ui.request)
     IN /\ rows' = out.rows
        /\ seq' = out.seq
        /\ resp' = [op |-> "POST", body |-> ui.request, status |-> out.status,
                    error |-> out.error, details |-> out.details, record |-> out.record]
        /\ returned' = IF out.status = 201 THEN Append(returned, out.record.id)
                       ELSE returned
        /\ ui' = Settled(ui, Response(out.status, out.details, out.error))
  /\ UNCHANGED <<now, deleted, calls>>

\* fetch rejects, before or after the request reached the server
SubmitFails ==
  /\ ui.request # NoRequest
  /\ \E reached \in BOOLEAN :
       LET out == POST(rows, seq, now, ui.request)
       IN /\ rows' = IF reached THEN out.rows ELSE rows
          /\ seq' = IF reached THEN out.seq ELSE seq
          /\ returned' = IF reached /\ out.status = 201
                           THEN Append(returned, out.record.id) ELSE returned
  /\ resp' = [op |-> "fetch rejected"]
  /\ ui' = Settled(ui, Rejected)
  /\ UNCHANGED <<now, deleted, calls>>

FormNext ==
  \/ \E value \in FormInputs : handleInputChange(value)
  \/ \E value \in FormNotes : handleNotesChange(value)
  \/ handleSubmit
  \/ SubmitResponds
  \/ SubmitFails

FormSpec == FormInit /\ [][FormNext]_vars

(* ------------------------ BPRecordsList and Home ----------------------- *)

\* the rows the store holds when the dashboard is opened, at least
DashRows == 11

\* the largest number of records fetches issued
MaxFetches == 4

\* the largest number of DELETE requests sent
MaxDeletes == 2

\* the largest number of readings submitted through the form
MaxPosts == 1

\* `${n}` in a template literal
NumText(n) == IF n < 0 THEN <<"-">> \o ToText(0 - n) ELSE ToText(n)

\* the k-th of n rows logged before the dashboard is opened, one per second
DashRecord(k) ==
  POST({}, k - 1, k, ObjectBody(Str(T_120_80_72), Undefined, Undefined, Undefined,
                                Undefined)).record

\* useState: recordsData, of Home
NoRecordsData == [records |-> <<>>, total |-> 0, limit |-> 10, offset |-> 0]

\* Home as first rendered, with its useEffect run: isLoading starts true and
\* fetchRecords() is in flight. fetches, deletes and post are the requests
\* in flight, issued and sent count them, shown is the number of the fetch
\* whose response setRecordsData last took, lists counts the lists mounted
NewHome ==
  [view |-> "home", recordsData |-> NoRecordsData, isLoading |-> TRUE, error |-> "",
   deletingId |-> 0, showConfirm |-> 0, lists |-> 1,
   fetches |-> {[n |-> 1, offset |-> 0, limit |-> 10, answered |-> FALSE,
                 status |-> 0, data |-> NoRecordsData]},
   issued |-> 1, shown |-> 0, deletes |-> {}, sent |-> 0, post |-> NoRequest,
   posted |-> 0]

\* fetchRecords up to its await
fetchRecords(home, offset, limit) ==
  [home EXCEPT !.isLoading = TRUE, !.error = "",
               !.issued = @ + 1,
               !.fetches = @ \cup {[n |-> home.issued + 1, offset |-> offset,
                                    limit |-> limit, answered |-> FALSE,
                                    status |-> 0, data |-> NoRecordsData]}]

\* BPRecordsList is rendered unless Home shows its error
ListMounted(home) == home.error = ""

\* Home shows its error in place of the list: the state of the list is lost,
\* and the list rendered next is another one
Unmounted(home) ==
  IF ListMounted(home)
    THEN [home EXCEPT !.deletingId = 0, !.showConfirm = 0, !.lists = @ + 1]
    ELSE home

\* fetchRecords after its await: f is the fetch, failed when fetch rejected
fetchSettled(home, f, failed) ==
  IF failed \/ f.status \notin 200..299
    THEN [Unmounted(home) EXCEPT
            !.error = IF failed THEN "Network error" ELSE "Failed to fetch records",
            !.isLoading = FALSE, !.fetches = @ \ {f}]
    ELSE [home EXCEPT !.recordsData = f.data, !.shown = f.n,
                      !.isLoading = FALSE, !.fetches = @ \ {f}]

\* the values of recordsData a callback of Home closes over when rendered
Closure(home) ==
  [length |-> Len(home.recordsData.records), offset |-> home.recordsData.offset,
   limit |-> home.recordsData.limit]

\* records.filter(r => r.id !== id)
RECURSIVE Without(_, _)
Without(records, id) ==
  IF records = <<>> THEN <<>>
  ELSE IF Head(records).id = id THEN Without(Tail(records), id)
  ELSE <<Head(records)>> \o Without(Tail(records), id)

\* handleDelete as rendered with the values c
handleDelete(home, c, id) ==
  fetchRecords([home EXCEPT !.recordsData.records = Without(@, id),
                            !.recordsData.total = @ - 1],
               IF c.length = 1 /\ c.offset > 0 THEN c.offset - c.limit ELSE c.offset,
               c.limit)

\* the pagination block is rendered
PaginationShown(home) ==
  ListMounted(home) /\ home.recordsData.records # <<>> /\ home.recordsData.total > 0

\* Math.floor(offset / limit) + 1
currentPage(home) == (home.recordsData.offset \div home.recordsData.limit) + 1

\* Math.ceil(total / limit)
totalPages(home) ==
  (home.recordsData.total + home.recordsData.limit - 1) \div home.recordsData.limit

hasPrevPage(home) == home.recordsData.offset > 0

hasNextPage(home) ==
  home.recordsData.offset + home.recordsData.limit < home.recordsData.total

\* disabled, of the Previous and of the Next button
PrevDisabled(home) == ~hasPrevPage(home) \/ home.isLoading

NextDisabled(home) == ~hasNextPage(home) \/ home.isLoading

\* handlePrevPage going back two pages
PrevPageCall_TwoPages(home) ==
  [called |-> TRUE, offset |-> home.recordsData.offset - 2 * home.recordsData.limit]

\* handlePrevPage: whether onPageChange is called, and with what
PrevPageCall(home) ==
  IF home.recordsData.offset >= home.recordsData.limit
    THEN [called |-> TRUE, offset |-> home.recordsData.offset - home.recordsData.limit]
    ELSE [called |-> FALSE, offset |-> 0]

\* handleNextPage: whether onPageChange is called, and with what
NextPageCall(home) ==
  IF home.recordsData.offset + home.recordsData.limit < home.recordsData.total
    THEN [called |-> TRUE, offset |-> home.recordsData.offset + home.recordsData.limit]
    ELSE [called |-> FALSE, offset |-> 0]

\* the ids of the records shown
ShownIds(home) ==
  {home.recordsData.records[k].id : k \in 1..Len(home.recordsData.records)}

\* handleConfirmDelete after its await with onDelete called whatever the response
ConfirmSettled_CallAlways(home, d, ok) ==
  [home |-> handleDelete([home EXCEPT !.deletes = @ \ {d}], d.closure, d.id),
   onDelete |-> TRUE]

\* handleConfirmDelete after its await: d is the request, ok its response.ok
\* (false also when fetch rejected); finally resets deletingId if the list is
\* still the one that sent d
ConfirmSettled(home, d, ok) ==
  LET rest == [home EXCEPT !.deletes = @ \ {d}]
      called == IF ok THEN handleDelete(rest, d.closure, d.id) ELSE rest
  IN [home |-> IF ListMounted(home) /\ d.list = home.lists
                 THEN [called EXCEPT !.deletingId = 0] ELSE called,
      onDelete |-> ok]

\* requests in flight that may each issue one more fetch when they settle
MayFetch(home) ==
  home.issued + Cardinality(home.deletes) + (IF home.post = NoRequest THEN 0 ELSE 1)

DashSizes == DashRows..(DashRows + 1)

DashInit ==
  \E n \in DashSizes :
    /\ rows = {DashRecord(k) : k \in 1..n}
    /\ seq = n
    /\ now = n + 1
    /\ resp = [op |-> "none"]
    /\ returned = [k \in 1..n |-> k]
    /\ deleted = {}
    /\ ui = NewHome
    /\ calls = {}

\* the server answers a records fetch
FetchAnswered ==
  \E f \in ui.fetches, plan \in {"index", "sort"} :
    /\ ~f.answered
    /\ LET out == GET(rows, now, now,
                      Options(Str(NumText(f.limit)), Str(NumText(f.offset)), Null), plan)
       IN /\ ui' = [ui EXCEPT !.fetches =
                      (@ \ {f}) \cup
                        {[f EXCEPT !.answered = TRUE, !.status = out.status,
                                   !.data = [records |-> out.records, total |-> out.total,
                                             limit |-> out.limit, offset |-> out.offset]]}]
          /\ resp' = [op |-> "GET", n |-> f.n, status |-> out.status]
    /\ UNCHANGED <<rows, seq, now, returned, deleted, calls>>

\* the response of a fetch reaches fetchRecords
FetchSettles ==
  \E f \in ui.fetches :
    /\ f.answered
    /\ ui' = fetchSettled(ui, f, FALSE)
    /\ resp' = [op |-> "fetchRecords", n |-> f.n, ok |-> f.status \in 200..299]
    /\ UNCHANGED <<rows, seq, now, returned, deleted, calls>>

\* a fetch rejects
FetchFails ==
  \E f \in ui.fetches :
    /\ ui' = fetchSettled(ui, f, TRUE)
    /\ resp' = [op |-> "fetchRecords", n |-> f.n, ok |-> FALSE]
    /\ UNCHANGED <<rows, seq, now, returned, deleted, calls>>

\* the Refresh button, disabled while isLoading
handleRefresh ==
  /\ ~ui.isLoading
  /\ MayFetch(ui) < MaxFetches
  /\ ui' = fetchRecords(ui, ui.recordsData.offset, ui.recordsData.limit)
  /\ resp' = [op |-> "handleRefresh"]
  /\ UNCHANGED <<rows, seq, now, returned, deleted, calls>>

\* a click on the Previous button
handlePrevPage ==
  /\ PaginationShown(ui) /\ ~PrevDisabled(ui)
  /\ MayFetch(ui) < MaxFetches
  /\ LET call == PrevPageCall(ui)
     IN /\ ui' = IF call.called THEN fetchRecords(ui, call.offset, ui.recordsData.limit)
                 ELSE ui
        /\ resp' = [op |-> "handlePrevPage", called |-> call.called, offset |-> call.offset]
  /\ UNCHANGED <<rows, seq, now, returned, deleted, calls>>

\* a click on the Next button
handleNextPage ==
  /\ PaginationShown(ui) /\ ~NextDisabled(ui)
  /\ MayFetch(ui) < MaxFetches
  /\ LET call == NextPageCall(ui)
     IN /\ ui' = IF call.called THEN fetchRecords(ui, call.offset, ui.recordsData.limit)
                 ELSE ui
        /\ resp' = [op |-> "handleNextPage", called |-> call.called, offset |-> call.offset]
  /\ UNCHANGED <<rows, seq, now, returned, deleted, calls>>

\* a click on the delete button of a record shown and not being confirmed
handleDeleteClick(id) ==
  /\ ListMounted(ui) /\ id \in ShownIds(ui) /\ ui.showConfirm # id
  /\ ui' = [ui EXCEPT !.showConfirm = id]
  /\ resp' = [op |-> "handleDeleteClick", id |-> id]
  /\ UNCHANGED <<rows, seq, now, returned, deleted, calls>>

\* a click on Cancel, shown for the record being confirmed
handleCancelDelete ==
  /\ ListMounted(ui) /\ ui.showConfirm \in ShownIds(ui)
  /\ ui.deletingId # ui.showConfirm
  /\ ui' = [ui EXCEPT !.showConfirm = 0]
  /\ resp' = [op |-> "handleCancelDelete"]
  /\ UNCHANGED <<rows, seq, now, returned, deleted, calls>>

\* a click on Confirm, shown for the record being confirmed: handleConfirmDelete
\* up to its await, with the onDelete of this render
handleConfirmDelete ==
  /\ ListMounted(ui) /\ ui.showConfirm \in ShownIds(ui)
  /\ ui.deletingId # ui.showConfirm
  /\ ui.sent < MaxDeletes
  /\ MayFetch(ui) < MaxFetches
  /\ ui' = [ui EXCEPT !.deletingId = ui.showConfirm, !.showConfirm = 0,
                      !.sent = @ + 1,
                      !.deletes = @ \cup {[n |-> ui.sent + 1, id |-> ui.showConfirm,
                                           list |-> ui.lists,
                                           closure |-> Closure(ui)]}]
  /\ resp' = [op |-> "handleConfirmDelete", id |-> ui.showConfirm]
  /\ UNCHANGED <<rows, seq, now, returned, deleted, calls>>

\* the server answers a DELETE and handleConfirmDelete resumes
DeleteSettles ==
  \E d \in ui.deletes :
    LET out == DELETE(rows, ToText(d.id))
        after == ConfirmSettled(ui, d, out.status \in 200..299)
    IN /\ rows' = out.rows
       /\ deleted' = IF out.status = 200 THEN deleted \cup {d.id} ELSE deleted
       /\ ui' = after.home
       /\ resp' = [op |-> "DELETE", id |-> d.id, status |-> out.status,
                   onDelete |-> after.onDelete, closure |-> d.closure]
       /\ UNCHANGED <<seq, now, returned, calls>>

\* the fetch of a DELETE rejects
DeleteFails ==
  \E d \in ui.deletes :
    LET after == ConfirmSettled(ui, d, FALSE)
    IN /\ ui' = after.home
       /\ resp' = [op |-> "DELETE", id |-> d.id, status |-> 0,
                   onDelete |-> after.onDelete, closure |-> d.closure]
       /\ UNCHANGED <<rows, seq, now, returned, deleted, calls>>

\* the form submits a valid reading, with the onSuccess of this render
FormSubmits ==
  /\ ui.post = NoRequest
  /\ ui.posted < MaxPosts
  /\ MayFetch(ui) < MaxFetches
  /\ ui' = [ui EXCEPT !.post = [kind |-> "post", closure |-> Closure(ui)],
                      !.posted = @ + 1]
  /\ resp' = [op |-> "handleSubmit"]
  /\ UNCHANGED <<rows, seq, now, returned, deleted, calls>>

\* the reading is saved and the form calls onSuccess, a handleRefresh
FormSucceeds ==
  /\ ui.post # NoRequest
  /\ LET out == POST(rows, seq, now, ObjectBody(Str(T_120_80_72), Undefined, Undefined,
                                                Undefined, Undefined))
     IN /\ rows' = out.rows
        /\ seq' = out.seq
        /\ returned' = Append(returned, out.record.id)
        /\ resp' = [op |-> "POST", body |-> ObjectBody(Str(T_120_80_72), Undefined,
                                                       Undefined, Undefined, Undefined),
                    status |-> out.status, error |-> out.error,
                    details |-> out.details, record |-> out.record]
  /\ ui' = fetchRecords([ui EXCEPT !.post = NoRequest],
                        ui.post.closure.offset, ui.post.closure.limit)
  /\ UNCHANGED <<now, deleted, calls>>

\* the records the user clicks delete on: the oldest two
DeleteTargets == {1, 2}

DashNext ==
  \/ FetchAnswered
  \/ FetchSettles
  \/ FetchFails
  \/ handleRefresh
  \/ handlePrevPage
  \/ handleNextPage
  \/ \E id \in DeleteTargets : handleDeleteClick(id)
  \/ handleCancelDelete
  \/ handleConfirmDelete
  \/ DeleteSettles
  \/ DeleteFails
  \/ FormSubmits
  \/ FormSucceeds

DashSpec == DashInit /\ [][DashNext]_vars

(* ------------------- several clients of the database file -------------- *)

\* the reading every client logs
LoggedInput ==
  [systolic |-> Num(120), diastolic |-> Num(80), heartRate |-> Num(72), notes |-> Undefined]

\* the processes that insert: the server's createRecord and the logger's
\* logBPReading
Clients == {"api", "cli"}

\* insert.run of createRecord and of logBPReading, in the process of client:
\* the statement is one transaction of its own
InsertRun(client) ==
  /\ seq < MaxId
  /\ LET out == createRecord(rows, seq, now, LoggedInput)
     IN /\ rows' = out.rows
        /\ seq' = out.seq
        /\ calls' = calls \cup {[client |-> client, id |-> out.seq]}
  /\ resp' = [op |-> "insert.run", client |-> client]
  /\ UNCHANGED <<now, returned, deleted, ui>>

\* the re-read of createRecord (getRecordById) and of logBPReading (SELECT
\* ... WHERE id = ?): a second statement, run on the table as it is by then
ReRead(call) == getRecordById(rows, call.id).id

\* the client reads its row back and returns
ReturnRecord ==
  \E call \in calls :
    LET id == ReRead(call)
    IN /\ calls' = calls \ {call}
       /\ resp' = [op |-> "createRecord", client |-> call.client, inserted |-> call.id,
                   record |-> id]
       /\ returned' = IF id # NoRecord.id THEN Append(returned, id) ELSE returned
       /\ UNCHANGED <<rows, seq, now, deleted, ui>>

ClientsNext ==
  \/ \E client \in Clients : InsertRun(client)
  \/ ReturnRecord
  \/ \E id \in 1..MaxId : DeleteRecord(id)
  \/ Tick

ClientsSpec == Init /\ [][ClientsNext]_vars

(* --------------------- validateInput and parseBPInput ------------------ *)

\* a text is in the reading field
ValidateInit ==
  /\ rows = {} /\ seq = 0 /\ now = 0 /\ returned = <<>> /\ deleted = {}
  /\ ui = NoView
  /\ calls = {}
  /\ \E input \in ParseInputs : resp = [op |-> "input", input |-> input]

\* handleSubmit validates the text, and the server parses what the form
\* would send, input.trim()
Validate ==
  /\ resp.op = "input"
  /\ resp' = [op |-> "validateInput", input |-> resp.input,
              inputError |-> validateInput(resp.input),
              parseResult |-> parseBPInput(Trim(resp.input))]
  /\ UNCHANGED <<rows, seq, now, returned, deleted, ui, calls>>

ValidateSpec == ValidateInit /\ [][Validate]_vars

(* ------------------------------ the claims ----------------------------- *)

Ids(rws) == {r.id : r \in rws}

\* a stored column that holds an integer between lo and hi
IntegerIn(v, lo, hi) == v.t = "number" /\ ~v.f /\ lo <= v.i /\ v.i <= hi

(* C1: every id createRecord returns is strictly greater than every id it  *)
(* returned before, whether or not those records have since been deleted.  *)
C1_IdsIncrease ==
  /\ \A j, k \in 1..Len(returned) : j < k => returned[j] < returned[k]
  /\ \A r \in rows : \E k \in 1..Len(returned) : returned[k] = r.id
  /\ \A r1, r2 \in rows : r1.id = r2.id => r1 = r2

\* a create that follows the deletion of every earlier record
C1_Witness ==
  /\ resp.op = "POST" /\ resp.status = 201
  /\ Len(returned) >= 2
  /\ Ids(rows) = {resp.record.id}
  /\ deleted = {returned[k] : k \in 1..(Len(returned) - 1)}

(* C2: after any sequence of POST requests every stored record has an      *)
(* integer systolic in [60,250], an integer diastolic in [40,150] and a     *)
(* heart_rate that is 0 or an integer in [40,200].                         *)
C2_StoredInRange ==
  \A r \in rows :
    /\ IntegerIn(r.systolic, 60, 250)
    /\ IntegerIn(r.diastolic, 40, 150)
    /\ (r.heart_rate = Num(0) \/ IntegerIn(r.heart_rate, 40, 200))

\* the request fails validation: the parser reports errors, a numeric field
\* of the object form is out of range, or neither form is present
C3_FailsValidation(body) ==
  \/ body.kind \in {"null", "scalar"}
  \/ /\ body.kind = "object"
     /\ body.input.t = "string"
     /\ parseBPInput(body.input.s).errors # <<>>
  \/ /\ body.kind = "object"
     /\ body.input.t = "undefined"
     /\ \/ \E v \in {body.systolic, body.diastolic, body.heartRate} : v.t = "undefined"
        \/ body.systolic.t = "number" /\ (body.systolic.i < 60 \/ body.systolic.i >= 250 + (IF body.systolic.f THEN 0 ELSE 1))
        \/ body.diastolic.t = "number" /\ (body.diastolic.i < 40 \/ body.diastolic.i >= 150 + (IF body.diastolic.f THEN 0 ELSE 1))
        \/ body.heartRate.t = "number" /\ (body.heartRate.i < 40 \/ body.heartRate.i >= 200 + (IF body.heartRate.f THEN 0 ELSE 1))

C3_Handler ==
  \A body \in PostBodies :
    LET out == POST(rows, seq, now, body)
    IN /\ C3_FailsValidation(body) => out.status = 400
       /\ out.status = 400 => out.rows = rows /\ out.seq = seq
       /\ out.status = 201 =>
            /\ ~C3_FailsValidation(body)
            /\ out.record \notin rows
            /\ out.rows = rows \cup {out.record}
       /\ out.rows # rows => out.status = 201

C3_Step ==
  resp'.op = "POST" =>
    /\ resp'.status = 400 => rows' = rows
    /\ resp'.status = 201 =>
         /\ resp'.record \notin rows
         /\ rows' = rows \cup {resp'.record}
    /\ rows' # rows => resp'.status = 201

(* C3: a POST that fails validation answers 400 and leaves the store       *)
(* unchanged; a record is created only by a request that passes            *)
(* validation, exactly one, and it is returned with 201.                   *)
C3_PostValidation == [](seq < MaxId => C3_Handler) /\ [][C3_Step]_vars

\* an object-form request rejected for its range, the store untouched
C3_Witness ==
  /\ resp.op = "POST" /\ resp.status = 400 /\ resp.error = "Invalid data"
  /\ Len(resp.details) = 3
  /\ rows # {}

C4_Step ==
  resp'.op = "deleteRecord" =>
    /\ resp'.result = (resp'.id \in Ids(rows))
    /\ resp'.id \in deleted => ~resp'.result

(* C4: the first deleteRecord(id) of an existing record returns true,      *)
(* every later one returns false, and getRecordById(id) returns null after *)
(* the first delete and after each later one.                              *)
C4_DeleteIdempotent ==
  /\ [](\A id \in deleted : getRecordById(rows, id) = NoRecord)
  /\ [][C4_Step]_vars

\* a second delete of an id, after the store has taken new records
C4_Witness ==
  /\ resp.op = "deleteRecord" /\ ~resp.result
  /\ resp.id \in deleted
  /\ \E r \in rows : r.id > resp.id

C5_Step ==
  resp'.op = "deleteRecord" =>
    /\ \A r \in rows : r.id # resp'.id => r \in rows'
    /\ rows' \subseteq rows
    /\ resp'.id \notin Ids(rows')
    /\ resp'.id \notin Ids(rows) => rows' = rows
    /\ seq' = seq

(* C5: deleteRecord(id) removes only the record with that id, every other  *)
(* record keeps all its fields, and with no such record the store is left  *)
(* as it was.                                                              *)
C5_DeleteFrame == [][C5_Step]_vars

\* a delete that removed one record of three
C5_Witness ==
  /\ resp.op = "deleteRecord" /\ resp.result
  /\ Cardinality(rows) = 2
  /\ \E r \in rows : r.id < resp.id
  /\ \E r \in rows : r.id > resp.id

\* getRecords options as documented: limit unspecified or in [1,1000],
\* offset unspecified or >= 0, days unspecified or a positive integer
InRange(options) ==
  /\ options.limit.t = "undefined" \/ (options.limit.i >= 1 /\ options.limit.i <= 1000)
  /\ options.offset.t = "undefined" \/ options.offset.i >= 0
  /\ options.days.t = "undefined" \/ options.days.i >= 1

\* the stored records the days filter keeps when the clock reads t
Filtered(options, t) ==
  {r \in rows : options.days.t = "undefined" \/ r.recorded_at >= t - options.days.i}

LimitOf(options) == IF options.limit.t = "undefined" THEN 50 ELSE options.limit.i

OffsetOf(options) == IF options.offset.t = "undefined" THEN 0 ELSE options.offset.i

Least(a, b) == IF a < b THEN a ELSE b

Most(a, b) == IF a > b THEN a ELSE b

(* C6: getRecords returns the records by recorded_at descending, and those *)
(* with equal recorded_at by id descending, a fixed tiebreak.              *)
C6_FixedTiebreak ==
  resp.op = "getRecords" =>
    \A j, k \in 1..Len(resp.records) :
      j < k =>
        \/ resp.records[j].recorded_at > resp.records[k].recorded_at
        \/ /\ resp.records[j].recorded_at = resp.records[k].recorded_at
           /\ resp.records[j].id > resp.records[k].id

(* C7: with N records matching the date filter, getRecords({limit,offset}) *)
(* returns the records at positions offset+1 .. min(offset+limit, N) of    *)
(* the newest-first order, min(limit, max(0, N - offset)) of them.  The    *)
(* positions are those of an order by recorded_at descending: the i-th     *)
(* record returned has at most offset+i-1 matching records newer than it   *)
(* and at least offset+i that are as new or newer.                         *)
C7_Page ==
  (resp.op = "getRecords" /\ InRange(resp.options)) =>
    LET M == Filtered(resp.options, now)
        N == Cardinality(M)
        limit == LimitOf(resp.options)
        offset == OffsetOf(resp.options)
        recs == resp.records
    IN /\ Len(recs) = Least(limit, Most(0, N - offset))
       /\ \A i \in 1..Len(recs) :
            /\ recs[i] \in M
            /\ Cardinality({r \in M : r.recorded_at > recs[i].recorded_at}) <= offset + i - 1
            /\ Cardinality({r \in M : r.recorded_at >= recs[i].recorded_at}) >= offset + i
       /\ \A i, j \in 1..Len(recs) : i < j => recs[i] # recs[j]

\* limit 2, offset 1 over three records: the second and third newest
C7_Witness ==
  /\ resp.op = "getRecords"
  /\ resp.options.limit = Num(2) /\ resp.options.offset = Num(1)
  /\ resp.options.days.t = "undefined"
  /\ Cardinality(rows) = 3
  /\ Len(resp.records) = 2
  /\ resp.records[1].recorded_at > resp.records[2].recorded_at

(* C8: the total getRecords returns is the number of stored records that   *)
(* match the days filter (all of them without a filter), whatever the      *)
(* limit and the offset.                                                   *)
C8_Total ==
  (/\ resp.op = "getRecords"
   /\ resp.options.days.t = "undefined" \/ resp.options.days.i >= 1) =>
    resp.total = Cardinality(Filtered(resp.options, resp.tCount))

\* a filtered total that is neither the page length nor the table size
C8_Witness ==
  /\ resp.op = "getRecords"
  /\ resp.options.days = Num(1)
  /\ resp.total = 2
  /\ Cardinality(rows) = 3
  /\ Len(resp.records) = 1

\* GET's limit parameter is missing or reads as an integer in [1,1000] and
\* its offset parameter is missing or reads as an integer >= 0
LimitOffsetAccepted(params) ==
  /\ \/ params.limit.t = "null"
     \/ /\ ~ParseInt(params.limit.s).nan
        /\ ParseInt(params.limit.s).i >= 1
        /\ ParseInt(params.limit.s).i <= 1000
  /\ \/ params.offset.t = "null"
     \/ ~ParseInt(params.offset.s).nan /\ ParseInt(params.offset.s).i >= 0

DenotesInteger(s) ==
  LET t == Trim(s)
  IN IsDigits(IF t # <<>> /\ Head(t) = "-" THEN Tail(t) ELSE t)

\* a query parameter that is present and is not an integer numeral of a
\* value that is lo or more
Offending(p, lo) ==
  p.t # "null" /\ (~DenotesInteger(p.s) \/ ParseInt(p.s).i < lo)

(* C11: GET /api/records answers 400 whenever limit is not numeric or is   *)
(* outside [1,1000], offset is not numeric or is negative, or days is not  *)
(* numeric or is below 1; the message names the first offending parameter  *)
(* in the order limit, offset, days, and the store is not queried.         *)
C11_GetRejects ==
  resp.op = "GET" =>
    LET badLimit == \/ Offending(resp.params.limit, 1)
                    \/ resp.params.limit.t # "null" /\ ParseInt(resp.params.limit.s).i > 1000
        badOffset == Offending(resp.params.offset, 0)
        badDays == Offending(resp.params.days, 1)
    IN (badLimit \/ badOffset \/ badDays) =>
         /\ resp.status = 400
         /\ ~resp.queried
         /\ resp.error =
              IF badLimit THEN "Invalid limit parameter. Must be between 1 and 1000"
              ELSE IF badOffset
                THEN "Invalid offset parameter. Must be a non-negative integer"
              ELSE "Invalid days parameter. Must be a positive integer"


\* the id text is a positive integer numeral: digits only, not all zero
WellFormedId(id) == IsDigits(id) /\ ParseInt(id).i >= 1

\* a DELETE step answers as C12 says
C12_Step ==
  resp'.op = "DELETE" =>
    LET id == resp'.id
        hit == {r \in rows : WellFormedId(id) /\ r.id = ParseInt(id).i}
    IN IF ~WellFormedId(id)
         THEN /\ resp'.status = 400 /\ resp'.error = "Invalid record ID"
              /\ ~resp'.called /\ rows' = rows
       ELSE IF hit = {}
         THEN resp'.status = 404 /\ resp'.error = "Record not found" /\ rows' = rows
       ELSE resp'.status = 200 /\ rows' = rows \ hit

(* C12: DELETE /api/records/{id} answers 400 'Invalid record ID', without  *)
(* calling deleteRecord, for every id text that is not a positive integer  *)
(* numeral (not numeric, zero, negative, decimal, digits followed by other *)
(* characters); 404 'Record not found' for a well-formed id of no record;  *)
(* 200 for a well-formed id of a record, which it removes.                 *)
C12_DeleteRoute == [][C12_Step]_vars


(* C13: for every integer systolic s in [60,250] and diastolic d in        *)
(* [40,150], parseBPInput of the text 's/d' succeeds with exactly          *)
(* systolic = s, diastolic = d and heartRate = null.                       *)
C13_RangeRoundTrip ==
  (resp.op = "parseBPInput" /\ resp.values # <<>>) =>
    /\ resp.input = RangeText(resp.values[1], resp.values[2])
    /\ resp.result.success
    /\ resp.result.errors = <<>>
    /\ resp.result.data = [systolic |-> resp.values[1], diastolic |-> resp.values[2],
                           heartRate |-> Null]

\* a corner of the two ranges has been parsed
C13_Witness ==
  /\ resp.op = "parseBPInput"
  /\ resp.values = <<250, 40>>
  /\ resp.input = <<"2", "5", "0", "/", "4", "0">>
  /\ resp.result.success


\* the trimmed text is a decimal numeral: an optional minus sign, digits,
\* and optionally a point and more digits
DenotesNumber(t) ==
  LET u == IF t # <<>> /\ Head(t) = "-" THEN Tail(t) ELSE t
      points == {k \in 1..Len(u) : u[k] = "."}
      p == IF points = {} THEN Len(u) + 1 ELSE CHOOSE k \in points : \A j \in points : k <= j
      frac == SubSeq(u, p + 1, Len(u))
  IN IsDigits(SubSeq(u, 1, p - 1)) /\ (frac = <<>> \/ IsDigits(frac))

\* the segments of an input
SegmentsOf(input) == Split(Trim(input), <<>>)

\* a segment as a field with the range lo..hi: "nan" when it is not a
\* numeral, "range" when its value cut to an integer is outside the range
FieldClass(seg, lo, hi) ==
  LET t == Trim(seg)
  IN IF ~DenotesNumber(t) THEN "nan"
     ELSE IF ParseInt(t).i < lo \/ ParseInt(t).i > hi THEN "range"
     ELSE "ok"

FieldClasses(input) ==
  LET parts == SegmentsOf(input)
  IN <<FieldClass(parts[1], 60, 250), FieldClass(parts[2], 40, 150)>>
       \o (IF Len(parts) = 3 THEN <<FieldClass(parts[3], 40, 200)>> ELSE <<>>)

NaNMessage ==
  <<"Systolic must be a valid number", "Diastolic must be a valid number",
    "Heart rate must be a valid number">>

RangeMessage ==
  <<"Systolic must be between 60 and 250", "Diastolic must be between 40 and 150",
    "Heart rate must be between 40 and 200">>

(* C14: for every input with 2 or 3 segments the error list of             *)
(* parseBPInput has exactly one error for each invalid field (systolic,    *)
(* diastolic, and heart rate when there is a third segment), in that       *)
(* order, and none for a valid field; a systolic out of range always       *)
(* gives 'Systolic must be between 60 and 250'.                            *)
C14_OneErrorPerInvalidField ==
  (resp.op = "parseBPInput" /\ Len(SegmentsOf(resp.input)) \in {2, 3}) =>
    LET class == FieldClasses(resp.input)
        IsInvalid(i) == class[i] # "ok"
        invalid == SelectSeq([i \in 1..Len(class) |-> i], IsInvalid)
        errors == resp.result.errors
    IN /\ resp.result.success = (invalid = <<>>)
       /\ Len(errors) = Len(invalid)
       /\ \A k \in 1..Len(invalid) :
            errors[k] \in {NaNMessage[invalid[k]], RangeMessage[invalid[k]]}
       /\ class[1] = "range" => (errors # <<>> /\ errors[1] = RangeMessage[1])

(* C15: for every input with 2 or 3 segments, each segment whose trimmed   *)
(* text is empty or is not a numeral gives that field's 'must be a valid   *)
(* number' error, never a range error and never a success.                 *)
C15_NotANumber ==
  (resp.op = "parseBPInput" /\ Len(SegmentsOf(resp.input)) \in {2, 3}) =>
    LET class == FieldClasses(resp.input)
        errors == resp.result.errors
    IN \A i \in 1..Len(class) :
         class[i] = "nan" =>
           /\ ~resp.result.success
           /\ \E k \in 1..Len(errors) : errors[k] = NaNMessage[i]
           /\ \A k \in 1..Len(errors) : errors[k] # RangeMessage[i]


(* C16: classifyBP returns, for every pair of readings, the first category *)
(* that matches in the order crisis (s >= 180 or d >= 120), high stage 2   *)
(* (s >= 140 or d >= 90), high stage 1 (s >= 130 or d >= 80), elevated     *)
(* (s >= 120 and d < 80), otherwise normal: exactly one category per pair  *)
(* (185/95 crisis, 120/85 high stage 1, 118/76 normal).                    *)
C16_FirstMatch ==
  resp.op = "classifyBP" =>
    LET s == resp.systolic
        d == resp.diastolic
        matches == <<s >= 180 \/ d >= 120, s >= 140 \/ d >= 90, s >= 130 \/ d >= 80,
                     s >= 120 /\ d < 80, TRUE>>
        names == <<"crisis", "high2", "high1", "elevated", "normal">>
        first == CHOOSE k \in 1..5 : matches[k] /\ \A j \in 1..(k - 1) : ~matches[j]
    IN /\ resp.category = names[first]
       /\ (s = 185 /\ d = 95) => resp.category = "crisis"
       /\ (s = 120 /\ d = 85) => resp.category = "high1"
       /\ (s = 118 /\ d = 76) => resp.category = "normal"

\* a pair that matches both the high stage 1 and the elevated test
C16_Witness ==
  /\ resp.op = "classifyBP"
  /\ resp.systolic = 135 /\ resp.diastolic = 70
  /\ resp.category = "high1"


\* the records C17 calls recent and older, of a list of 6 records or more
RecentOf(records) ==
  LET half == Len(records) \div 2
  IN SubSeq(records, 1, IF 3 < half THEN 3 ELSE half)

OlderOf(records) ==
  LET half == Len(records) \div 2
  IN SubSeq(records, half + 1, IF half + 3 < Len(records) THEN half + 3 ELSE Len(records))

\* mean(recent systolic) - mean(older systolic), compared with an integer,
\* in exact arithmetic: the means are brought to a common denominator
MeanDiffBelow(records, bound) ==
  LET r == RecentOf(records)
      o == OlderOf(records)
  IN SumSystolic(r) * Len(o) - SumSystolic(o) * Len(r) < bound * Len(r) * Len(o)

MeanDiffAbove(records, bound) ==
  LET r == RecentOf(records)
      o == OlderOf(records)
  IN SumSystolic(r) * Len(o) - SumSystolic(o) * Len(r) > bound * Len(r) * Len(o)

(* C17: the trend is stable for every list of fewer than 6 records; for 6  *)
(* records or more, with recent the first min(3, floor(n/2)) records of    *)
(* the list and older the up to 3 records from index floor(n/2), it is     *)
(* improving iff mean(recent systolic) - mean(older systolic) < -5,        *)
(* worsening iff that difference > 5, and stable otherwise.                *)
C17_Trend ==
  resp.op = "BPStats" =>
    IF Len(resp.records) < 6 THEN resp.stats.trend = "stable"
    ELSE /\ resp.stats.trend = "improving" <=> MeanDiffBelow(resp.records, 0 - 5)
         /\ resp.stats.trend = "worsening" <=> MeanDiffAbove(resp.records, 5)
         /\ resp.stats.trend \in {"improving", "worsening", "stable"}

(* C18 as stated: for 6 records, a recent mean systolic 5 or more below    *)
(* the older mean gives improving and one 5 or more above gives worsening. *)
C18_FiveOrMore ==
  (resp.op = "BPStats" /\ Len(resp.records) = 6) =>
    /\ ~MeanDiffAbove(resp.records, 0 - 5) => resp.stats.trend = "improving"
    /\ ~MeanDiffBelow(resp.records, 5) => resp.stats.trend = "worsening"

\* both means are whole numbers
WholeMeans(records) ==
  SumSystolic(RecentOf(records)) % 3 = 0 /\ SumSystolic(OlderOf(records)) % 3 = 0

(* C18 amended: for 6 records, a recent mean systolic more than 5 below    *)
(* the older mean gives improving and one more than 5 above gives          *)
(* worsening; whole-number means exactly 5 apart give stable.              *)
C18_MoreThanFive ==
  (resp.op = "BPStats" /\ Len(resp.records) = 6) =>
    /\ MeanDiffBelow(resp.records, 0 - 5) => resp.stats.trend = "improving"
    /\ MeanDiffAbove(resp.records, 5) => resp.stats.trend = "worsening"
    /\ (/\ WholeMeans(resp.records)
        /\ ~MeanDiffBelow(resp.records, 0 - 5)
        /\ ~MeanDiffAbove(resp.records, 5)) => resp.stats.trend = "stable"

\* six records whose recent mean, 123, is a third more than 5 below the
\* older
C18_Witness ==
  /\ resp.op = "BPStats"
  /\ Len(resp.records) = 6
  /\ \A k \in 1..3 : resp.records[k].systolic = 123
  /\ \A k \in 4..5 : resp.records[k].systolic = 128
  /\ resp.records[6].systolic = 129
  /\ resp.stats.trend = "improving"

\* the list with the records at positions i and j exchanged
Exchanged(records, i, j) ==
  [k \in 1..Len(records) |->
     IF k = i THEN records[j] ELSE IF k = j THEN records[i] ELSE records[k]]

(* C19: the date range and the trend are computed on the records re-sorted *)
(* by recorded_at: every permutation of the same records reports the same  *)
(* date range and, for 6 records or more, the same trend.  Exchanges of    *)
(* two records make up every permutation.                                  *)
C19_OrderIndependent ==
  resp.op = "BPStats" =>
    \A i, j \in 1..Len(resp.records) :
      LET other == stats(Exchanged(resp.records, i, j))
      IN /\ other.dateRange = resp.stats.dateRange
         /\ Len(resp.records) >= 6 => other.trend = resp.stats.trend


\* the positions of str that hold a double quote, up to position k
QuotesUpTo(str, k) == Cardinality({j \in 1..k : str[j] = "\""})

\* out is str with every double quote doubled, between two double quotes
QuotedForm(out, str) ==
  /\ Len(out) = Len(str) + QuotesUpTo(str, Len(str)) + 2
  /\ out[1] = "\"" /\ out[Len(out)] = "\""
  /\ \A k \in 1..Len(str) :
       LET at == 1 + k + QuotesUpTo(str, k)
       IN /\ out[at] = str[k]
          /\ str[k] = "\"" => out[at - 1] = "\""

(* C20: a CSV field is wrapped in double quotes iff it contains a comma, a *)
(* double quote, a line feed or a carriage return, and then every double   *)
(* quote inside it is doubled; any other field is written as it is, and a  *)
(* null note as an empty field without quotes.                             *)
C20_CsvEscaping ==
  resp.op = "escapeCSVField" =>
    IF resp.field.t = "null" THEN resp.out = <<>>
    ELSE LET str == IF resp.field.t = "string" THEN resp.field.s ELSE ToText(resp.field.i)
             special == \E k \in 1..Len(str) : str[k] \in {",", "\"", "\n", "\r"}
         IN IF special THEN QuotedForm(resp.out, str) ELSE resp.out = str

\* a note with a double quote and a carriage return
C20_Witness ==
  /\ resp.op = "escapeCSVField"
  /\ resp.field = Str(<<"a", "\"", "\r">>)
  /\ resp.out = <<"\"", "a", "\"", "\"", "\r", "\"">>


\* the header row of the export
HeaderRow ==
  <<"D", "a", "t", "e", ",", "S", "y", "s", "t", "o", "l", "i", "c", ",",
    "D", "i", "a", "s", "t", "o", "l", "i", "c", ",",
    "H", "e", "a", "r", "t", " ", "R", "a", "t", "e", ",", "N", "o", "t", "e", "s">>

\* the data row of a record: its five fields, escaped, between commas
DataRow(record) ==
  escapeCSVField(record.recorded_at) \o <<",">> \o escapeCSVField(record.systolic)
    \o <<",">> \o escapeCSVField(record.diastolic) \o <<",">>
    \o escapeCSVField(record.heart_rate) \o <<",">> \o escapeCSVField(record.notes)

\* where the data row of the k-th record starts in the export: after the
\* header, the rows before it, and one line feed for each of them
RowStart(records, k) ==
  LET RECURSIVE Before(_)
      Before(j) == IF j = 0 THEN Len(HeaderRow)
                   ELSE Before(j - 1) + 1 + Len(DataRow(records[j]))
  IN Before(k - 1) + 1

(* C21: the CSV export of k records is the header                          *)
(* 'Date,Systolic,Diastolic,Heart Rate,Notes' followed by exactly k data   *)
(* rows in the order the records were supplied, joined by a single line    *)
(* feed, with no line feed at the end; for k = 0 it is the header alone.   *)
C21_CsvLayout ==
  resp.op = "recordsToCSV" =>
    LET k == Len(resp.records)
        out == resp.out
    IN /\ SubSeq(out, 1, Len(HeaderRow)) = HeaderRow
       /\ Len(out) = RowStart(resp.records, k + 1) - 1
       /\ \A j \in 1..k :
            LET at == RowStart(resp.records, j)
            IN /\ out[at] = "\n"
               /\ SubSeq(out, at + 1, at + Len(DataRow(resp.records[j]))) =
                    DataRow(resp.records[j])
       /\ k = 0 => out = HeaderRow

\* three records exported, the second with a note that holds a line feed
C21_Witness ==
  /\ resp.op = "recordsToCSV"
  /\ Len(resp.records) = 3
  /\ resp.records[1].notes = Null
  /\ resp.records[2].notes = Str(<<"a", "\n", "b">>)
  /\ resp.records[3].notes = Str(<<"a">>)
  /\ resp.out[Len(resp.out)] = "a"


\* the insert of what the body carries fails in the store: a value that
\* cannot be bound to the statement
InsertFails(body) ==
  /\ body.kind = "object"
  /\ \E v \in {body.systolic, body.diastolic, body.heartRate, body.notes} :
       v.t \notin {"undefined", "number", "string", "null"}

(* C22: an API request is answered with a 5xx status only when a store     *)
(* operation or obtaining the store fails; a request rejected because of   *)
(* its own content, a body that is not a valid JSON object included, is    *)
(* answered with a 4xx status and a message.                               *)
C22_ServerErrorsOnlyFromStore ==
  /\ resp.op = "POST" =>
       /\ resp.status >= 500 => InsertFails(resp.body)
       /\ resp.body.kind # "object" =>
            (resp.status >= 400 /\ resp.status <= 499 /\ resp.error # "")
  /\ resp.op \in {"GET", "DELETE"} =>
       /\ resp.status < 500
       /\ resp.status >= 400 => resp.error # ""


\* the step settles the form's request with an ok response
SettlesOk == resp'.op = "POST" /\ resp'.status \in 200..299

\* C23: every submit that sends a request puts the form in the loading state,
\* and the form is loading exactly while the request is in flight; when the
\* request settles the loading state ends, and onSuccess is called once and
\* both fields are cleared if the response was ok, while after a non-ok
\* response or a rejected fetch the values are kept and onSuccess is not
\* called; no other step calls onSuccess
C23_SubmitLoadingAndOutcome ==
  [][/\ ui'.isLoading <=> ui'.request # NoRequest
     /\ (ui.request = NoRequest /\ ui'.request # NoRequest) => ui'.isLoading
     /\ IF ui.request # NoRequest /\ ui'.request = NoRequest
          THEN /\ ~ui'.isLoading
               /\ IF SettlesOk
                    THEN /\ ui'.onSuccess = ui.onSuccess + 1
                         /\ ui'.input = <<>> /\ ui'.notes = <<>>
                    ELSE /\ ui'.onSuccess = ui.onSuccess
                         /\ ui'.input = ui.input /\ ui'.notes = ui.notes
                         /\ ui'.input # <<>>
          ELSE ui'.onSuccess = ui.onSuccess]_vars

\* a reading is saved, onSuccess called and the form cleared, after an
\* earlier submit whose fetch was rejected and left onSuccess uncalled
C23_Witness ==
  /\ ui.view = "form"
  /\ ui.onSuccess = 1
  /\ ui.input = <<>>
  /\ ~ui.isLoading
  /\ resp.op = "POST" /\ resp.status = 201
  /\ Len(returned) = 2


\* C24: a DELETE request for a record is sent only by a confirm click while
\* that record is being confirmed, a record is being confirmed only after a
\* delete click on it, and a cancel click sends nothing and ends the
\* confirming; when a request settles onDelete is called, once, iff the
\* response was ok, and the call takes one off the total shown
C24_DeleteAfterConfirm ==
  [][/\ \A d \in ui'.deletes \ ui.deletes :
          /\ resp'.op = "handleConfirmDelete"
          /\ ui.showConfirm = d.id
     /\ ui'.showConfirm \notin {0, ui.showConfirm} =>
          resp'.op = "handleDeleteClick" /\ resp'.id = ui'.showConfirm
     /\ resp'.op = "handleCancelDelete" =>
          ui'.deletes = ui.deletes /\ ui'.sent = ui.sent /\ ui'.showConfirm = 0
     /\ resp'.op = "DELETE" =>
          /\ resp'.onDelete <=> resp'.status \in 200..299
          /\ ui'.recordsData.total =
               ui.recordsData.total - (IF resp'.status \in 200..299 THEN 1 ELSE 0)
     /\ resp'.op \notin {"DELETE", "fetchRecords"} =>
          ui'.recordsData = ui.recordsData]_vars

\* two requests were sent and have settled, the last with ok and a call of
\* onDelete, the other without deleting anything
C24_Witness ==
  /\ resp.op = "DELETE" /\ resp.status = 200 /\ resp.onDelete
  /\ ui.sent = 2 /\ ui.deletes = {}
  /\ Cardinality(deleted) = 1

\* C25: a click on Next calls onPageChange(offset + limit) and a click on
\* Previous onPageChange(offset - limit), with an offset that is neither
\* negative nor at or beyond the total; both buttons are disabled while
\* isLoading, Previous on the first page and Next on the last
C25_PageChanges ==
  [][/\ resp'.op = "handleNextPage" =>
          /\ resp'.called
          /\ resp'.offset = ui.recordsData.offset + ui.recordsData.limit
     /\ resp'.op = "handlePrevPage" =>
          /\ resp'.called
          /\ resp'.offset = ui.recordsData.offset - ui.recordsData.limit
     /\ resp'.op \in {"handleNextPage", "handlePrevPage"} =>
          /\ resp'.offset >= 0 /\ resp'.offset < ui.recordsData.total
          /\ \E f \in ui'.fetches \ ui.fetches : f.offset = resp'.offset
     /\ ui'.isLoading => PrevDisabled(ui') /\ NextDisabled(ui')
     /\ currentPage(ui') = 1 => PrevDisabled(ui')
     /\ currentPage(ui') >= totalPages(ui') => NextDisabled(ui')]_vars

\* Previous was clicked on the second page
C25_Witness ==
  /\ resp.op = "handlePrevPage" /\ resp.called /\ resp.offset = 0
  /\ ui.recordsData.offset = 10
  /\ ui.isLoading


\* C26: the dashboard is loading exactly while a records fetch is in flight:
\* on as long as any fetch has not settled, off once every fetch has
C26_LoadingWhileFetching == ui.isLoading <=> ui.fetches # {}

\* C27: the response of a fetch is taken into recordsData only if no fetch
\* issued after it has had its response taken already, so that once all
\* fetches have settled the records shown are those of the newest
C27_NewestFetchWins ==
  [][(resp'.op = "fetchRecords" /\ resp'.ok) =>
       /\ resp'.n > ui.shown
       /\ ui'.shown = resp'.n]_vars

\* C30: no fetch asks for a negative offset, and when an ok DELETE takes the
\* only record shown on a page with offset > 0, the refetch that follows asks
\* for offset - limit
C30_OffsetsRequested ==
  [][/\ \A f \in ui'.fetches : f.offset >= 0
     /\ (/\ resp'.op = "DELETE" /\ resp'.onDelete
         /\ ShownIds(ui) = {resp'.id}
         /\ ui.recordsData.offset > 0)
          => \E f \in ui'.fetches \ ui.fetches :
               f.offset = ui.recordsData.offset - ui.recordsData.limit]_vars


\* C28: a createRecord whose insert succeeded returns the record it inserted,
\* whatever other clients' deleteRecord calls come between its insert and
\* its re-read
C28_CreateRecordAtomic ==
  resp.op = "createRecord" => resp.record = resp.inserted


\* C29: every text validateInput accepts is accepted by parseBPInput
C29_ClientImpliesServer ==
  (resp.op = "validateInput" /\ resp.inputError = "") => resp.parseResult.success

====
